---- MODULE Spec2Model ----
(***************************************************************************)
(* The carousel editor of src/App.tsx (third App component, lines          *)
(* 1239-2567) as a state machine: the React state of the component, its    *)
(* refs, the asynchronous work in flight, and one action per handler.      *)
(*                                                                         *)
(* Conventions.                                                            *)
(*  - null is "none" for the string-valued states, "null" for an image     *)
(*    reference, and the empty sequence for a ref holding an object and    *)
(*    for the error message.                                               *)
(*  - A text is a sequence of pieces; a piece is a run of characters that  *)
(*    is either only white space or has no white space at either end.      *)
(*  - A scale is kept in thousandths (1.0 is 1000); a position in pixels.  *)
(*  - activeSlideIndex is 0-based as in the source; slides is 1-based.     *)
(*  - A handler runs atomically and reads the state of the last render;    *)
(*    React renders between two events, so that is the current state. The  *)
(*    continuation of an async handler keeps the closure of its call.      *)
(***************************************************************************)
EXTENDS Integers, Sequences, FiniteSets, TLC

VARIABLES
  carouselState, history, redoStack,
  editingField, draggingItem, resizingItem, activeHandle, guidelines,
  dragStartRef, resizeStartRef, scale,
  error, isProcessing, isGeneratingImage, prompt, imageGenerationPrompt,
  preEditStateRef, preBulkContentStateRef, bulkContentChangedRef,
  readers, geminiEdit, imageGen, exports, outputs, focused,
  lastOp, stepsLeft, gestureBegan, run, redoDropped, focusBegan

docVars     == <<carouselState, history, redoStack>>
gestureVars == <<draggingItem, resizingItem, activeHandle, guidelines,
                 dragStartRef, resizeStartRef>>
textVars    == <<preEditStateRef, preBulkContentStateRef, bulkContentChangedRef,
                 focused, focusBegan>>
formVars    == <<prompt, imageGenerationPrompt, textVars>>
asyncVars   == <<isProcessing, isGeneratingImage, readers, geminiEdit, imageGen>>
exportVars  == <<exports, outputs>>
vars == <<carouselState, history, redoStack,
          editingField, draggingItem, resizingItem, activeHandle, guidelines,
          dragStartRef, resizeStartRef, scale,
          error, isProcessing, isGeneratingImage, prompt, imageGenerationPrompt,
          preEditStateRef, preBulkContentStateRef, bulkContentChangedRef,
          readers, geminiEdit, imageGen, exports, outputs, focused,
          lastOp, stepsLeft, gestureBegan, run, redoDropped, focusBegan>>

----------------------------------------------------------------------------
(* Bounds of the model *)

\* handler calls and completions in one behaviour
MaxSteps == 4
\* history-recording operations of one run of operations followed by undos
MaxRunOps == 2
\* slides of the carousel a behaviour of SpecSlides starts from
MaxStartSlides == 3

(* Program constants *)

MAX_SLIDES == 10
SNAP_THRESHOLD == 15
CARD_WIDTH == 1080
CARD_PADDING_LEFT == 100
\* sensitivity 0.002 per pixel, in thousandths
sensitivity == 2
\* Math.max(0.2, Math.min(newScale, 3.0)), in thousandths
MinScale == 200
MaxScale == 3000

----------------------------------------------------------------------------
(* Texts *)

IsWhite(piece) == piece \in {" ", "\n"}

RECURSIVE trimStart(_)
trimStart(t) ==
  IF t # <<>> /\ IsWhite(Head(t)) THEN trimStart(Tail(t)) ELSE t

RECURSIVE trimEnd(_)
trimEnd(t) ==
  IF t # <<>> /\ IsWhite(t[Len(t)]) THEN trimEnd(SubSeq(t, 1, Len(t) - 1)) ELSE t

\* String.prototype.trim
trim(t) == trimEnd(trimStart(t))

NumStr(n) ==
  CASE n = 0 -> "0" [] n = 1 -> "1" [] n = 2 -> "2" [] n = 3 -> "3"
    [] n = 4 -> "4" [] n = 5 -> "5" [] n = 6 -> "6" [] n = 7 -> "7"
    [] n = 8 -> "8" [] n = 9 -> "9" [] n = 10 -> "10" [] OTHER -> "n"

Max(a, b) == IF a >= b THEN a ELSE b
Min(a, b) == IF a <= b THEN a ELSE b

CONTENT_TEMPLATES == {"educacional", "storytelling", "lista"}

\* CONTENT_TEMPLATES[id].build(index, total)
\* mutant: the last slide is tested before the first
buildLastFirst(id, index, total) ==
  IF index = total - 1
  THEN CASE id = "educacional" ->
              <<"CTA: comente QUERO para receber o passo a passo completo.">>
         [] id = "storytelling" ->
              <<"Conclusao + CTA: salve esse carrossel para revisar quando for aplicar.">>
         [] OTHER -> <<"Qual insight voce vai aplicar primeiro? Responda nos comentarios.">>
  ELSE IF index = 0
  THEN CASE id = "educacional" ->
              <<"Gancho forte: o erro que esta travando seu resultado hoje.">>
         [] id = "storytelling" ->
              <<"Tudo comecou quando eu percebi um padrao que ninguem estava falando.">>
         [] OTHER -> <<"Top", " ", NumStr(Max(total - 2, 3)), " ",
                       "ideias para melhorar seu conteudo hoje.">>
  ELSE CASE id = "educacional" ->
              <<"Ponto", " ", NumStr(index),
                ": explique a ideia principal com exemplo curto e pratico.">>
         [] id = "storytelling" ->
              <<"Cena", " ", NumStr(index),
                ": descreva o conflito e a virada com objetividade.">>
         [] OTHER -> <<"Insight", " ", NumStr(index),
                       ": dica pratica + um micro-exemplo de aplicacao.">>
build(id, index, total) ==
  CASE id = "educacional" ->
         IF index = 0 THEN <<"Gancho forte: o erro que esta travando seu resultado hoje.">>
         ELSE IF index = total - 1
              THEN <<"CTA: comente QUERO para receber o passo a passo completo.">>
              ELSE <<"Ponto", " ", NumStr(index),
                     ": explique a ideia principal com exemplo curto e pratico.">>
    [] id = "storytelling" ->
         IF index = 0 THEN <<"Tudo comecou quando eu percebi um padrao que ninguem estava falando.">>
         ELSE IF index = total - 1
              THEN <<"Conclusao + CTA: salve esse carrossel para revisar quando for aplicar.">>
              ELSE <<"Cena", " ", NumStr(index),
                     ": descreva o conflito e a virada com objetividade.">>
    [] OTHER ->
         IF index = 0 THEN <<"Top", " ", NumStr(Max(total - 2, 3)), " ",
                             "ideias para melhorar seu conteudo hoje.">>
         ELSE IF index = total - 1
              THEN <<"Qual insight voce vai aplicar primeiro? Responda nos comentarios.">>
              ELSE <<"Insight", " ", NumStr(index),
                     ": dica pratica + um micro-exemplo de aplicacao.">>

CONTENT_SNIPPETS ==
  { <<"Hook: voce esta cometendo esse erro sem perceber.">>,
    <<"Prova: isso aumentou meus resultados em poucos dias.">>,
    <<"Passo pratico: abra agora e aplique em 2 minutos.">>,
    <<"CTA: salve esse post para usar depois.">> }

BACKGROUND_OPTIONS == {"#FFFFFF", "#15202B"}

----------------------------------------------------------------------------
(* The document *)

DEFAULT_AVATAR_BASE64 == "data:image/png;base64,default"

DEFAULT_TWEET_DATA ==
  [ displayName        |-> <<"Pedro Barboza">>,
    handle             |-> <<"@Pedro.barboza_">>,
    content            |-> <<"De vida aos seus posts">>,
    avatarUrl          |-> DEFAULT_AVATAR_BASE64,
    headerPosition     |-> [x |-> 0, y |-> 0],
    headerScale        |-> 1000,
    contentPosition    |-> [x |-> 0, y |-> 0],
    contentScale       |-> 1000,
    contentWidth       |-> 100,
    background         |-> "#FFFFFF",
    tweetImage         |-> "null",
    tweetImagePosition |-> [x |-> 0, y |-> 0],
    tweetImageScale    |-> 1000 ]

\* { ...slide, headerPosition: {...}, contentPosition: {...}, tweetImagePosition: {...} }
cloneSlide(slide) ==
  [ slide EXCEPT
      !.headerPosition     = [x |-> slide.headerPosition.x, y |-> slide.headerPosition.y],
      !.contentPosition    = [x |-> slide.contentPosition.x, y |-> slide.contentPosition.y],
      !.tweetImagePosition = [x |-> slide.tweetImagePosition.x,
                              y |-> slide.tweetImagePosition.y] ]

cloneCarouselState(state) ==
  [ slides           |-> [i \in 1..Len(state.slides) |-> cloneSlide(state.slides[i])],
    activeSlideIndex |-> state.activeSlideIndex ]

\* The component renders carouselState.slides[activeSlideIndex]; with the index
\* out of range that is undefined, the render throws and the component is gone.
Mounted ==
  /\ carouselState.activeSlideIndex >= 0
  /\ carouselState.activeSlideIndex < Len(carouselState.slides)

tweetData == carouselState.slides[carouselState.activeSlideIndex + 1]

\* setCarouselState(prev => ... updatedSlides[prev.activeSlideIndex] = updater(...))
\* mutant: the updater is applied to the first slide
updateTweetDataFirst(prev, newSlide) ==
  [ prev EXCEPT !.slides[1] = newSlide ]
updateTweetData(prev, newSlide) ==
  [ prev EXCEPT !.slides[prev.activeSlideIndex + 1] = newSlide ]

----------------------------------------------------------------------------
(* History *)

\* every action is one step of the behaviour's budget
tick == stepsLeft > 0 /\ stepsLeft' = stepsLeft - 1

\* the run of operations under observation counts the snapshots it records
ranOp == IF run.phase = "ops" THEN [run EXCEPT !.n = run.n + 1] ELSE run
ranUndo == IF run.phase = "off" THEN run
           ELSE [run EXCEPT !.phase = "undos", !.u = run.u + 1]

\* the history and redo stack after saveToHistory(prevState)
\* mutant: only the latest snapshot is kept
savedHistoryLastOnly(h, prevState) == <<cloneCarouselState(prevState)>>
savedHistory(h, prevState) == Append(h, cloneCarouselState(prevState))

\* mutant: the redo stack survives a new snapshot
savedRedoKept(r) == r
savedRedo(r) == <<>>

saveToHistory(prevState) ==
  /\ history' = savedHistory(history, prevState)
  /\ redoStack' = savedRedo(redoStack)
  /\ run' = ranOp
  /\ redoDropped' = Len(redoStack)

noSave == UNCHANGED <<history, redoStack, run>> /\ redoDropped' = 0

\* what handleUndo leaves in (carouselState, history, redoStack)
\* mutant: the undone state goes to the tail of the redo stack
undoResultAppend(cs, h, r) ==
  IF Len(h) = 0
  THEN [carouselState |-> cs, history |-> h, redoStack |-> r]
  ELSE [ carouselState |-> h[Len(h)],
         history       |-> SubSeq(h, 1, Len(h) - 1),
         redoStack     |-> Append(r, cloneCarouselState(cs)) ]
\* mutant: the empty-stack return comes after the push onto the redo stack
undoResultNoGuard(cs, h, r) ==
  [ carouselState |-> IF Len(h) = 0 THEN cs ELSE h[Len(h)],
    history       |-> SubSeq(h, 1, Len(h) - 1),
    redoStack     |-> <<cloneCarouselState(cs)>> \o r ]
undoResult(cs, h, r) ==
  IF Len(h) = 0
  THEN [carouselState |-> cs, history |-> h, redoStack |-> r]
  ELSE [ carouselState |-> h[Len(h)],
         history       |-> SubSeq(h, 1, Len(h) - 1),
         redoStack     |-> <<cloneCarouselState(cs)>> \o r ]

\* what handleRedo leaves in (carouselState, history, redoStack)
\* mutant: the document of before the redo is not put on the undo stack
redoResultDropsCurrent(cs, h, r) ==
  IF Len(r) = 0
  THEN [carouselState |-> cs, history |-> h, redoStack |-> r]
  ELSE [ carouselState |-> r[1],
         history       |-> h,
         redoStack     |-> Tail(r) ]
redoResult(cs, h, r) ==
  IF Len(r) = 0
  THEN [carouselState |-> cs, history |-> h, redoStack |-> r]
  ELSE [ carouselState |-> r[1],
         history       |-> Append(h, cloneCarouselState(cs)),
         redoStack     |-> Tail(r) ]

othersUnchanged ==
  UNCHANGED <<editingField, gestureVars, scale, formVars, asyncVars, exportVars,
              gestureBegan>>

handleUndo ==
  /\ Mounted
  /\ tick
  /\ LET res == undoResult(carouselState, history, redoStack)
     IN /\ carouselState' = res.carouselState
        /\ history' = res.history
        /\ redoStack' = res.redoStack
  /\ run' = ranUndo
  /\ lastOp' = "undo"
  /\ redoDropped' = 0
  /\ UNCHANGED error
  /\ othersUnchanged

handleRedo ==
  /\ Mounted
  /\ tick
  /\ LET res == redoResult(carouselState, history, redoStack)
     IN /\ carouselState' = res.carouselState
        /\ history' = res.history
        /\ redoStack' = res.redoStack
  /\ lastOp' = "redo"
  /\ redoDropped' = 0
  /\ UNCHANGED <<error, run>>
  /\ othersUnchanged

----------------------------------------------------------------------------
(* Slide / carousel manager *)

\* mutant: the selection records a snapshot like the other slide operations
handleSelectSlideRecorded(index) ==
  /\ Mounted
  /\ tick
  /\ carouselState' = [carouselState EXCEPT !.activeSlideIndex = index]
  /\ editingField' = "none"
  /\ lastOp' = "selectSlide"
  /\ saveToHistory(carouselState)
  /\ UNCHANGED <<error, gestureVars, scale, formVars, asyncVars, exportVars,
                 gestureBegan>>
handleSelectSlide(index) ==
  /\ Mounted
  /\ tick
  /\ carouselState' = [carouselState EXCEPT !.activeSlideIndex = index]
  /\ editingField' = "none"
  /\ lastOp' = "selectSlide"
  /\ noSave
  /\ UNCHANGED <<error, gestureVars, scale, formVars, asyncVars, exportVars,
                 gestureBegan>>

\* carouselState.slides.length >= MAX_SLIDES, the test of handleAddSlide and
\* handleDuplicateSlide
\* mutant: the limit is tested with >
overCapacity(state) == Len(state.slides) > MAX_SLIDES
atCapacity(state) == Len(state.slides) >= MAX_SLIDES

\* the carousel after handleAddSlide; closure is the rendered state the handler
\* read, prev the state its updater received
\* mutant: the new slide is a copy of the default slide
addSlideFromDefault(closure, prev) ==
  [ slides           |-> Append(prev.slides, cloneSlide(DEFAULT_TWEET_DATA)),
    activeSlideIndex |-> Len(prev.slides) ]
addSlideResult(closure, prev) ==
  LET idx == closure.activeSlideIndex
      baseSlide == IF idx >= 0 /\ idx < Len(closure.slides)
                   THEN closure.slides[idx + 1] ELSE DEFAULT_TWEET_DATA
      newSlide == cloneSlide(baseSlide)
  IN [ slides           |-> Append(prev.slides, newSlide),
       activeSlideIndex |-> Len(prev.slides) ]

handleAddSlide ==
  /\ Mounted
  /\ tick
  /\ IF atCapacity(carouselState)
     THEN /\ error' = <<"Limite de slides atingido.">>
          /\ noSave
          /\ UNCHANGED carouselState
     ELSE /\ saveToHistory(carouselState)
          /\ carouselState' = addSlideResult(carouselState, carouselState)
          /\ error' = <<>>
  /\ lastOp' = "addSlide"
  /\ othersUnchanged

\* mutant: the copy is appended at the end
duplicateAtEnd(closure, prev) ==
  [ slides           |-> Append(prev.slides, cloneSlide(closure.slides[closure.activeSlideIndex + 1])),
    activeSlideIndex |-> closure.activeSlideIndex + 1 ]
duplicateSlideResult(closure, prev) ==
  LET idx == closure.activeSlideIndex
      newSlide == cloneSlide(closure.slides[idx + 1])
  IN [ slides           |-> SubSeq(prev.slides, 1, idx + 1) \o <<newSlide>>
                              \o SubSeq(prev.slides, idx + 2, Len(prev.slides)),
       activeSlideIndex |-> idx + 1 ]

handleDuplicateSlide ==
  /\ Mounted
  /\ tick
  /\ IF atCapacity(carouselState)
     THEN /\ error' = <<"Limite de slides atingido.">>
          /\ noSave
          /\ UNCHANGED carouselState
     ELSE /\ saveToHistory(carouselState)
          /\ carouselState' = duplicateSlideResult(carouselState, carouselState)
          /\ error' = <<>>
  /\ lastOp' = "duplicateSlide"
  /\ othersUnchanged

\* prev.slides.filter((_, slideIndex) => slideIndex !== idx)
withoutSlide(slides, idx) ==
  SubSeq(slides, 1, idx) \o SubSeq(slides, idx + 2, Len(slides))

\* mutant: the active index is not clamped to the new length
removeNoClamp(closure, prev) ==
  [ slides           |-> withoutSlide(prev.slides, closure.activeSlideIndex),
    activeSlideIndex |-> closure.activeSlideIndex ]
removeSlideResult(closure, prev) ==
  LET idx == closure.activeSlideIndex
      updatedSlides == withoutSlide(prev.slides, idx)
  IN [ slides           |-> updatedSlides,
       activeSlideIndex |-> Max(0, Min(idx, Len(updatedSlides) - 1)) ]

\* mutant: the snapshot is recorded before the test for the last slide
handleRemoveSlideSavesFirst ==
  /\ Mounted
  /\ tick
  /\ saveToHistory(carouselState)
  /\ IF Len(carouselState.slides) <= 1
     THEN /\ error' = <<"E necessario manter pelo menos 1 slide.">>
          /\ UNCHANGED carouselState
     ELSE /\ carouselState' = removeSlideResult(carouselState, carouselState)
          /\ error' = <<>>
  /\ lastOp' = "removeSlide"
  /\ othersUnchanged
handleRemoveSlide ==
  /\ Mounted
  /\ tick
  /\ IF Len(carouselState.slides) <= 1
     THEN /\ error' = <<"E necessario manter pelo menos 1 slide.">>
          /\ noSave
          /\ UNCHANGED carouselState
     ELSE /\ saveToHistory(carouselState)
          /\ carouselState' = removeSlideResult(carouselState, carouselState)
          /\ error' = <<>>
  /\ lastOp' = "removeSlide"
  /\ othersUnchanged

moveOp(direction) == IF direction = "left" THEN "moveSlideLeft" ELSE "moveSlideRight"

\* mutant: the target is always the next index
targetIndexRight(idx, direction) == idx + 1
targetIndexOf(idx, direction) == IF direction = "left" THEN idx - 1 ELSE idx + 1

\* mutant: the active index stays where it was
moveKeepsIndex(closure, prev, direction) ==
  LET idx == closure.activeSlideIndex
      targetIndex == targetIndexOf(idx, direction)
  IN [ slides           |-> [prev.slides EXCEPT ![idx + 1] = prev.slides[targetIndex + 1],
                                                 ![targetIndex + 1] = prev.slides[idx + 1]],
       activeSlideIndex |-> idx ]
moveSlideResult(closure, prev, direction) ==
  LET idx == closure.activeSlideIndex
      targetIndex == targetIndexOf(idx, direction)
  IN [ slides           |-> [prev.slides EXCEPT ![idx + 1] = prev.slides[targetIndex + 1],
                                                 ![targetIndex + 1] = prev.slides[idx + 1]],
       activeSlideIndex |-> targetIndex ]

handleMoveSlide(direction) ==
  /\ Mounted
  /\ tick
  /\ LET targetIndex == targetIndexOf(carouselState.activeSlideIndex, direction)
     IN IF targetIndex < 0 \/ targetIndex >= Len(carouselState.slides)
        THEN /\ noSave
             /\ UNCHANGED carouselState
        ELSE /\ saveToHistory(carouselState)
             /\ carouselState' = moveSlideResult(carouselState, carouselState, direction)
  /\ lastOp' = moveOp(direction)
  /\ UNCHANGED error
  /\ othersUnchanged

----------------------------------------------------------------------------
(* Form handlers that record one snapshot and change the document *)

handleApplyTemplate(templateId) ==
  /\ Mounted
  /\ tick
  /\ IF templateId \notin CONTENT_TEMPLATES
     THEN /\ noSave
          /\ UNCHANGED carouselState
     ELSE /\ saveToHistory(carouselState)
          /\ carouselState' =
               [ carouselState EXCEPT
                   !.slides = [ index \in 1..Len(carouselState.slides) |->
                                  [ carouselState.slides[index] EXCEPT
                                      !.content = build(templateId, index - 1,
                                                        Len(carouselState.slides)) ] ] ]
  /\ lastOp' = "applyTemplate"
  /\ UNCHANGED error
  /\ othersUnchanged

\* prev.content.trim() ? `${prev.content.trim()}\n\n${snippet}` : snippet
snippetContent(content, snippet) ==
  IF trim(content) # <<>> THEN trim(content) \o <<"\n", "\n">> \o snippet ELSE snippet

handleApplySnippetToActiveSlide(snippet) ==
  /\ Mounted
  /\ tick
  /\ saveToHistory(carouselState)
  /\ carouselState' = updateTweetData(carouselState,
       [tweetData EXCEPT !.content = snippetContent(tweetData.content, snippet)])
  /\ lastOp' = "snippet"
  /\ UNCHANGED error
  /\ othersUnchanged

\* the slide of position index after handleCopyStyleToAllSlides
\* mutant: the tweet image is copied with its position and scale
styledSlideWithImage(slide, sourceSlide) ==
  [ slide EXCEPT
      !.background         = sourceSlide.background,
      !.headerPosition     = sourceSlide.headerPosition,
      !.headerScale        = sourceSlide.headerScale,
      !.contentPosition    = sourceSlide.contentPosition,
      !.contentScale       = sourceSlide.contentScale,
      !.tweetImage         = sourceSlide.tweetImage,
      !.tweetImagePosition = sourceSlide.tweetImagePosition,
      !.tweetImageScale    = sourceSlide.tweetImageScale ]
styledSlide(slide, sourceSlide) ==
  [ slide EXCEPT
      !.background         = sourceSlide.background,
      !.headerPosition     = [x |-> sourceSlide.headerPosition.x,
                              y |-> sourceSlide.headerPosition.y],
      !.headerScale        = sourceSlide.headerScale,
      !.contentPosition    = [x |-> sourceSlide.contentPosition.x,
                              y |-> sourceSlide.contentPosition.y],
      !.contentScale       = sourceSlide.contentScale,
      !.tweetImagePosition = [x |-> sourceSlide.tweetImagePosition.x,
                              y |-> sourceSlide.tweetImagePosition.y],
      !.tweetImageScale    = sourceSlide.tweetImageScale ]

copyStyleResult(closure, prev) ==
  LET sourceSlide == closure.slides[closure.activeSlideIndex + 1]
  IN [ prev EXCEPT
         !.slides = [ index \in 1..Len(prev.slides) |->
                        IF index - 1 = prev.activeSlideIndex THEN prev.slides[index]
                        ELSE styledSlide(prev.slides[index], sourceSlide) ] ]

handleCopyStyleToAllSlides ==
  /\ Mounted
  /\ tick
  /\ saveToHistory(carouselState)
  /\ carouselState' = copyStyleResult(carouselState, carouselState)
  /\ lastOp' = "copyStyle"
  /\ UNCHANGED error
  /\ othersUnchanged

handleBackgroundChange(bgStyle) ==
  /\ Mounted
  /\ tick
  /\ saveToHistory(carouselState)
  /\ carouselState' = updateTweetData(carouselState, [tweetData EXCEPT !.background = bgStyle])
  /\ lastOp' = "backgroundChange"
  /\ UNCHANGED error
  /\ othersUnchanged

\* the button is rendered only while the active slide has an image
removeTweetImage ==
  /\ Mounted
  /\ tick
  /\ tweetData.tweetImage # "null"
  /\ saveToHistory(carouselState)
  /\ carouselState' = updateTweetData(carouselState, [tweetData EXCEPT !.tweetImage = "null"])
  /\ lastOp' = "removeTweetImage"
  /\ UNCHANGED error
  /\ othersUnchanged

\* <input type="range" min="0.5" max="2.0" step="0.05">, in thousandths
SliderValues == { v \in 500..2000 : v % 50 = 0 }

\* onChange of the two range inputs: updateTweetData(...); saveToHistory(carouselState)
sliderChange(element, value) ==
  /\ Mounted
  /\ tick
  /\ element \in {"header", "content"}
  /\ saveToHistory(carouselState)
  /\ carouselState' = updateTweetData(carouselState,
       IF element = "header" THEN [tweetData EXCEPT !.headerScale = value]
       ELSE [tweetData EXCEPT !.contentScale = value])
  /\ lastOp' = "slider"
  /\ UNCHANGED error
  /\ othersUnchanged

----------------------------------------------------------------------------
(* Inline editing *)

handleDoubleClick(element) ==
  /\ Mounted
  /\ tick
  /\ editingField = "none" \/ editingField # element
  /\ saveToHistory(carouselState)
  /\ editingField' = element
  /\ lastOp' = "doubleClick"
  /\ UNCHANGED <<carouselState, error, gestureVars, scale, formVars, asyncVars,
                 exportVars, gestureBegan>>

\* { ...prev, [editingField]: value }
withField(slide, field, value) ==
  CASE field = "displayName" -> [slide EXCEPT !.displayName = value]
    [] field = "handle"      -> [slide EXCEPT !.handle = value]
    [] OTHER                 -> [slide EXCEPT !.content = value]

\* mutant: every keystroke records a snapshot
handleEditChangeRecorded(value) ==
  /\ Mounted
  /\ tick
  /\ editingField # "none"
  /\ carouselState' = updateTweetData(carouselState, withField(tweetData, editingField, value))
  /\ saveToHistory(carouselState)
  /\ lastOp' = "editChange"
  /\ UNCHANGED <<editingField, error>>
  /\ UNCHANGED <<gestureVars, scale, formVars, asyncVars, exportVars, gestureBegan>>
handleEditChange(value) ==
  /\ Mounted
  /\ tick
  /\ editingField # "none"
  /\ carouselState' = updateTweetData(carouselState, withField(tweetData, editingField, value))
  /\ noSave
  /\ lastOp' = "editChange"
  /\ UNCHANGED <<editingField, error>>
  /\ UNCHANGED <<gestureVars, scale, formVars, asyncVars, exportVars, gestureBegan>>

handleEditBlur ==
  /\ Mounted
  /\ tick
  /\ editingField # "none"
  /\ editingField' = "none"
  /\ noSave
  /\ lastOp' = "editBlur"
  /\ UNCHANGED <<carouselState, error, gestureVars, scale, formVars, asyncVars,
                 exportVars, gestureBegan>>

----------------------------------------------------------------------------
(* Text fields of the side bar *)

\* slide[field]
fieldOf(slide, field) ==
  CASE field = "displayName" -> slide.displayName
    [] field = "handle"      -> slide.handle
    [] OTHER                 -> slide.content

\* the text field that has the focus: the input of the field displayName or
\* handle of the active slide, or the text area of the content of slide index
noFocus == focused = <<>>
focusedOn(field, index) == focused = <<[field |-> field, index |-> index]>>

\* the document and the undo stack a text-field session began with
beginSession == focusBegan' = <<[carouselState |-> carouselState, history |-> history]>>

\* onFocus of the input of displayName or handle
handleInputFocus(field) ==
  /\ Mounted
  /\ tick
  /\ noFocus
  /\ preEditStateRef' = <<tweetData>>
  /\ focused' = <<[field |-> field, index |-> carouselState.activeSlideIndex]>>
  /\ beginSession
  /\ noSave
  /\ lastOp' = "inputFocus"
  /\ UNCHANGED <<carouselState, editingField, gestureVars, scale, error, prompt,
                 imageGenerationPrompt, preBulkContentStateRef, bulkContentChangedRef,
                 asyncVars, exportVars, gestureBegan>>

\* onChange of that input; React raises it only for a value that is new
handleInputChange(field, value) ==
  /\ Mounted
  /\ tick
  /\ focusedOn(field, carouselState.activeSlideIndex)
  /\ value # fieldOf(tweetData, field)
  /\ carouselState' = updateTweetData(carouselState, withField(tweetData, field, value))
  /\ noSave
  /\ lastOp' = "inputChange"
  /\ UNCHANGED <<editingField, gestureVars, scale, error, formVars, asyncVars, exportVars,
                 gestureBegan>>

\* the carousel handleInputBlur hands to saveToHistory: the rendered slides
\* with the slide kept at the focus in place of the active one
preEditCarousel(state, preEdit) ==
  [ state EXCEPT
      !.slides = [ idx \in 1..Len(state.slides) |->
                     IF idx - 1 = state.activeSlideIndex THEN preEdit
                     ELSE state.slides[idx] ] ]

\* onBlur of that input
handleInputBlur(field) ==
  /\ Mounted
  /\ tick
  /\ focusedOn(field, carouselState.activeSlideIndex)
  /\ IF preEditStateRef # <<>>
        /\ fieldOf(preEditStateRef[1], field) # fieldOf(tweetData, field)
     THEN saveToHistory(preEditCarousel(carouselState, preEditStateRef[1]))
     ELSE noSave
  /\ preEditStateRef' = <<>>
  /\ focused' = <<>>
  /\ focusBegan' = <<>>
  /\ lastOp' = "inputBlur"
  /\ UNCHANGED <<carouselState, editingField, gestureVars, scale, error, prompt,
                 imageGenerationPrompt, preBulkContentStateRef, bulkContentChangedRef,
                 asyncVars, exportVars, gestureBegan>>

\* onFocus of the text area of slide slideIndex
handleBulkContentFocus(slideIndex) ==
  /\ Mounted
  /\ tick
  /\ noFocus
  /\ slideIndex \in 0..(Len(carouselState.slides) - 1)
  /\ IF preBulkContentStateRef = <<>>
     THEN /\ preBulkContentStateRef' = <<cloneCarouselState(carouselState)>>
          /\ bulkContentChangedRef' = FALSE
     ELSE UNCHANGED <<preBulkContentStateRef, bulkContentChangedRef>>
  /\ focused' = <<[field |-> "content", index |-> slideIndex]>>
  /\ beginSession
  /\ noSave
  /\ lastOp' = "bulkFocus"
  /\ UNCHANGED <<carouselState, editingField, gestureVars, scale, error, prompt,
                 imageGenerationPrompt, preEditStateRef, asyncVars, exportVars,
                 gestureBegan>>

\* onChange of that text area
handleBulkContentChange(slideIndex, value) ==
  /\ Mounted
  /\ tick
  /\ focusedOn("content", slideIndex)
  /\ slideIndex \in 0..(Len(carouselState.slides) - 1)
  /\ value # carouselState.slides[slideIndex + 1].content
  /\ bulkContentChangedRef' =
       IF carouselState.slides[slideIndex + 1].content # value THEN TRUE
       ELSE bulkContentChangedRef
  /\ carouselState' = [carouselState EXCEPT !.slides[slideIndex + 1].content = value]
  /\ noSave
  /\ lastOp' = "bulkChange"
  /\ UNCHANGED <<editingField, gestureVars, scale, error, prompt, imageGenerationPrompt,
                 preEditStateRef, preBulkContentStateRef, focused, focusBegan,
                 asyncVars, exportVars, gestureBegan>>

\* onBlur of that text area
handleBulkContentBlur ==
  /\ Mounted
  /\ tick
  /\ ~noFocus
  /\ focused[1].field = "content"
  /\ IF preBulkContentStateRef # <<>> /\ bulkContentChangedRef
     THEN saveToHistory(preBulkContentStateRef[1])
     ELSE noSave
  /\ preBulkContentStateRef' = <<>>
  /\ bulkContentChangedRef' = FALSE
  /\ focused' = <<>>
  /\ focusBegan' = <<>>
  /\ lastOp' = "bulkBlur"
  /\ UNCHANGED <<carouselState, editingField, gestureVars, scale, error, prompt,
                 imageGenerationPrompt, preEditStateRef, asyncVars, exportVars,
                 gestureBegan>>

----------------------------------------------------------------------------
(* Dynamic scaling *)

cardWidth == 1080
cardHeight == 1440
padding == 32

RECURSIVE Gcd(_, _)
Gcd(a, b) == IF b = 0 THEN a ELSE Gcd(b, a % b)

\* the fraction n/d in lowest terms, d positive
fraction(n, d) ==
  LET g == Gcd(IF n < 0 THEN 0 - n ELSE n, d)
  IN [n |-> (IF n < 0 THEN 0 - ((0 - n) \div g) ELSE n \div g), d |-> d \div g]

\* Math.min(scaleX, scaleY) of a container of the given client size
containerScale(containerWidth, containerHeight) ==
  IF (containerWidth - padding) * cardHeight <= (containerHeight - padding) * cardWidth
  THEN fraction(containerWidth - padding, cardWidth)
  ELSE fraction(containerHeight - padding, cardHeight)

\* the resize of the window or of the container, or the timer of the switch to
\* the preview tab; container is containerRef.current, <<>> for null
calculateScale(container) ==
  /\ Mounted
  /\ tick
  /\ scale' = IF container = <<>> THEN scale
              ELSE IF container[1].clientWidth = 0 \/ container[1].clientHeight = 0
              THEN scale
              ELSE containerScale(container[1].clientWidth, container[1].clientHeight)
  /\ noSave
  /\ lastOp' = "calculateScale"
  /\ UNCHANGED <<carouselState, editingField, gestureVars, error, formVars, asyncVars,
                 exportVars, gestureBegan>>

----------------------------------------------------------------------------
(* Dragging and resizing *)

\* Infinity, -Infinity and NaN, the values a division by 0 gives and every
\* sum with one of them: one number beyond every coordinate, so that each
\* comparison of processMove with a threshold fails on it as it does in the
\* source
NotFinite == 1000000000

plus(a, b) == IF a = NotFinite \/ b = NotFinite THEN NotFinite ELSE a + b

\* v / scale for the view scale n/d
divByScale(v) ==
  IF scale.n = 0 THEN NotFinite
  ELSE IF scale.n < 0 THEN (0 - v * scale.d) \div (0 - scale.n)
  ELSE (v * scale.d) \div scale.n

positionOf(slide, element) ==
  CASE element = "header"  -> slide.headerPosition
    [] element = "content" -> slide.contentPosition
    [] OTHER               -> slide.tweetImagePosition

scaleOf(slide, element) ==
  CASE element = "header"  -> slide.headerScale
    [] element = "content" -> slide.contentScale
    [] OTHER               -> slide.tweetImageScale

\* the region of the image is rendered only while the slide has an image, and
\* at the view scale 0 the card has no area a pointer could be over
regionRendered(element) ==
  /\ element = "tweetImage" => tweetData.tweetImage # "null"
  /\ scale.n # 0

\* mousedown with the left button, or touchstart, on a region of the card;
\* rectWidth and rectHeight are the sides of target.getBoundingClientRect()
\* mutant: the drag starts during an inline edit too
initiateDragWhileEditing(clientX, clientY, element, rectWidth, rectHeight) ==
  /\ Mounted
  /\ tick
  /\ regionRendered(element)
  /\ draggingItem' = element
  /\ dragStartRef' =
       << [ x |-> clientX, y |-> clientY,
            initialX |-> positionOf(tweetData, element).x,
            initialY |-> positionOf(tweetData, element).y,
            width  |-> divByScale(rectWidth),
            height |-> divByScale(rectHeight) ] >>
  /\ saveToHistory(carouselState)
  /\ gestureBegan' = <<carouselState>>
  /\ lastOp' = "dragStart"
  /\ UNCHANGED <<resizingItem, activeHandle, guidelines, resizeStartRef>>
  /\ UNCHANGED <<carouselState, editingField, scale, error, formVars, asyncVars, exportVars>>
initiateDrag(clientX, clientY, element, rectWidth, rectHeight) ==
  /\ Mounted
  /\ tick
  /\ regionRendered(element)
  /\ IF editingField # "none"
     THEN /\ noSave
          /\ UNCHANGED <<gestureVars, gestureBegan>>
     ELSE /\ draggingItem' = element
          /\ dragStartRef' =
               << [ x |-> clientX, y |-> clientY,
                    initialX |-> positionOf(tweetData, element).x,
                    initialY |-> positionOf(tweetData, element).y,
                    width  |-> divByScale(rectWidth),
                    height |-> divByScale(rectHeight) ] >>
          /\ saveToHistory(carouselState)
          /\ gestureBegan' = <<carouselState>>
          /\ UNCHANGED <<resizingItem, activeHandle, guidelines, resizeStartRef>>
  /\ lastOp' = "dragStart"
  /\ UNCHANGED <<carouselState, editingField, scale, error, formVars, asyncVars, exportVars>>

\* mousedown or touchstart on a corner handle of a region
initiateResize(clientX, clientY, element, handle) ==
  /\ Mounted
  /\ tick
  /\ regionRendered(element)
  /\ saveToHistory(carouselState)
  /\ resizingItem' = element
  /\ activeHandle' = handle
  /\ resizeStartRef' =
       << [ startX |-> clientX, startY |-> clientY,
            initialScale |-> scaleOf(tweetData, element) ] >>
  /\ gestureBegan' = <<carouselState>>
  /\ lastOp' = "resizeStart"
  /\ UNCHANGED <<carouselState, editingField, draggingItem, guidelines, dragStartRef,
                 scale, error, formVars, asyncVars, exportVars>>

\* mutant: the two handles of the anti-diagonal are exchanged
growthDeltaMirrored(handle, deltaX, deltaY) ==
  CASE handle = "se" -> deltaX + deltaY
    [] handle = "ne" -> (0 - deltaX) + deltaY
    [] handle = "sw" -> deltaX - deltaY
    [] handle = "nw" -> (0 - deltaX) - deltaY
    [] OTHER -> 0
growthDelta(handle, deltaX, deltaY) ==
  CASE handle = "se" -> deltaX + deltaY
    [] handle = "sw" -> (0 - deltaX) + deltaY
    [] handle = "ne" -> deltaX - deltaY
    [] handle = "nw" -> (0 - deltaX) - deltaY
    [] OTHER -> 0

\* the scale a pointer move writes while resizing
\* mutant: the growth is added to the scale the element has now
resizedScaleFromCurrent(ref, handle, clientX, clientY) ==
  Max(MinScale,
      Min(scaleOf(tweetData, resizingItem)
            + growthDelta(handle, clientX - ref.startX, clientY - ref.startY) * sensitivity,
          MaxScale))
\* mutant: the new scale is not clamped
resizedScaleUnclamped(ref, handle, clientX, clientY) ==
  ref.initialScale + growthDelta(handle, clientX - ref.startX, clientY - ref.startY) * sensitivity
resizedScale(ref, handle, clientX, clientY) ==
  LET newScale == ref.initialScale
                    + growthDelta(handle, clientX - ref.startX, clientY - ref.startY)
                      * sensitivity
  IN Max(MinScale, Min(newScale, MaxScale))

Abs(v) == IF v < 0 THEN 0 - v ELSE v

\* the position and the guidelines a pointer move computes while dragging
\* mutant: the snap of y emits a horizontal guideline
draggedToWithHorizontal(ref, clientX, clientY) ==
  LET deltaX == divByScale(clientX - ref.x)
      deltaY == divByScale(clientY - ref.y)
      x0 == plus(ref.initialX, deltaX)
      y0 == plus(ref.initialY, deltaY)
      snapLeft == Abs(x0) < SNAP_THRESHOLD
      x1 == IF snapLeft THEN 0 ELSE x0
      off2 == 2 * (CARD_PADDING_LEFT + x1) + ref.width - CARD_WIDTH
      snapCentre == Abs(off2) < 2 * SNAP_THRESHOLD
      x2 == IF snapCentre THEN (CARD_WIDTH - 2 * CARD_PADDING_LEFT - ref.width) \div 2 ELSE x1
      snapTop == Abs(y0) < SNAP_THRESHOLD
      y1 == IF snapTop THEN 0 ELSE y0
  IN [ x |-> x2, y |-> y1,
       guidelines |->
         (IF snapLeft THEN <<[type |-> "vertical", position |-> CARD_PADDING_LEFT]>> ELSE <<>>)
         \o (IF snapCentre THEN <<[type |-> "vertical", position |-> CARD_WIDTH \div 2]>>
             ELSE <<>>)
         \o (IF snapTop THEN <<[type |-> "horizontal", position |-> 0]>> ELSE <<>>) ]
draggedTo(ref, clientX, clientY) ==
  LET deltaX == divByScale(clientX - ref.x)
      deltaY == divByScale(clientY - ref.y)
      x0 == plus(ref.initialX, deltaX)
      y0 == plus(ref.initialY, deltaY)
      snapLeft == Abs(x0) < SNAP_THRESHOLD
      x1 == IF snapLeft THEN 0 ELSE x0
      \* twice the distance of the centre of the element from the centre of the card
      off2 == 2 * (CARD_PADDING_LEFT + x1) + ref.width - CARD_WIDTH
      snapCentre == Abs(off2) < 2 * SNAP_THRESHOLD
      x2 == IF snapCentre THEN (CARD_WIDTH - 2 * CARD_PADDING_LEFT - ref.width) \div 2 ELSE x1
      y1 == IF Abs(y0) < SNAP_THRESHOLD THEN 0 ELSE y0
  IN [ x |-> x2, y |-> y1,
       guidelines |->
         (IF snapLeft THEN <<[type |-> "vertical", position |-> CARD_PADDING_LEFT]>> ELSE <<>>)
         \o (IF snapCentre THEN <<[type |-> "vertical", position |-> CARD_WIDTH \div 2]>>
             ELSE <<>>) ]

withScale(slide, element, value) ==
  CASE element = "header"  -> [slide EXCEPT !.headerScale = value]
    [] element = "content" -> [slide EXCEPT !.contentScale = value]
    [] OTHER               -> [slide EXCEPT !.tweetImageScale = value]

withPosition(slide, element, x, y) ==
  CASE element = "header"  -> [slide EXCEPT !.headerPosition = [x |-> x, y |-> y]]
    [] element = "content" -> [slide EXCEPT !.contentPosition = [x |-> x, y |-> y]]
    [] OTHER               -> [slide EXCEPT !.tweetImagePosition = [x |-> x, y |-> y]]

\* mousemove, or touchmove of the first touch
processMove(clientX, clientY) ==
  /\ Mounted
  /\ tick
  /\ IF resizingItem # "none" /\ resizeStartRef # <<>> /\ activeHandle # "none"
     THEN /\ carouselState' = updateTweetData(carouselState,
               withScale(tweetData, resizingItem,
                         resizedScale(resizeStartRef[1], activeHandle, clientX, clientY)))
          /\ UNCHANGED guidelines
     ELSE IF draggingItem = "none" \/ dragStartRef = <<>>
     THEN UNCHANGED <<carouselState, guidelines>>
     ELSE LET to == draggedTo(dragStartRef[1], clientX, clientY)
          IN /\ guidelines' = to.guidelines
             /\ carouselState' = updateTweetData(carouselState,
                  withPosition(tweetData, draggingItem, to.x, to.y))
  /\ noSave
  /\ lastOp' = "move"
  /\ UNCHANGED <<editingField, draggingItem, resizingItem, activeHandle, dragStartRef,
                 resizeStartRef, scale, error, formVars, asyncVars, exportVars,
                 gestureBegan>>

\* mouseup, mouseleave or touchend
\* mutant: the end of the gesture leaves the resize state and its ref alone
handleInteractionEndDragOnly ==
  /\ Mounted
  /\ tick
  /\ draggingItem' = "none"
  /\ guidelines' = <<>>
  /\ dragStartRef' = <<>>
  /\ gestureBegan' = <<>>
  /\ noSave
  /\ lastOp' = "interactionEnd"
  /\ UNCHANGED <<resizingItem, activeHandle, resizeStartRef>>
  /\ UNCHANGED <<carouselState, editingField, scale, error, formVars, asyncVars, exportVars>>
handleInteractionEnd ==
  /\ Mounted
  /\ tick
  /\ draggingItem' = "none"
  /\ resizingItem' = "none"
  /\ activeHandle' = "none"
  /\ guidelines' = <<>>
  /\ dragStartRef' = <<>>
  /\ resizeStartRef' = <<>>
  /\ gestureBegan' = <<>>
  /\ noSave
  /\ lastOp' = "interactionEnd"
  /\ UNCHANGED <<carouselState, editingField, scale, error, formVars, asyncVars, exportVars>>

----------------------------------------------------------------------------
(* Asynchronous work: file reads and the two image services *)

MaxReaders == 1

\* what a FileReader hands to onloadend: a data URL, or null after a read error
ReadResults == {"data:image/upload", "null"}

\* the file input of the avatar (kind "avatar") or of the tweet image changes
\* with a file chosen: handleFileUpload / handleTweetImageUpload
handleUpload(kind) ==
  /\ Mounted
  /\ tick
  /\ Len(readers) < MaxReaders
  /\ saveToHistory(carouselState)
  /\ readers' = Append(readers, [kind |-> kind, closure |-> carouselState])
  /\ lastOp' = IF kind = "avatar" THEN "fileUpload" ELSE "tweetImageUpload"
  /\ UNCHANGED <<carouselState, editingField, gestureVars, scale, error, formVars,
                 isProcessing, isGeneratingImage, geminiEdit, imageGen, exportVars,
                 gestureBegan>>

\* the updater of handleTweetImageUpload and of handleImageGeneration
withTweetImage(slide, image) ==
  [ slide EXCEPT !.tweetImage = image,
                 !.tweetImagePosition = [x |-> 0, y |-> 0],
                 !.tweetImageScale = 1000 ]

\* reader.onloadend of the read of position k
readerLoadEnd(k, result) ==
  /\ Mounted
  /\ tick
  /\ k \in 1..Len(readers)
  /\ carouselState' = updateTweetData(carouselState,
       IF readers[k].kind = "avatar" THEN [tweetData EXCEPT !.avatarUrl = result]
       ELSE withTweetImage(tweetData, result))
  /\ readers' = SubSeq(readers, 1, k - 1) \o SubSeq(readers, k + 1, Len(readers))
  /\ noSave
  /\ lastOp' = "readerLoadEnd"
  /\ UNCHANGED <<editingField, gestureVars, scale, error, formVars,
                 isProcessing, isGeneratingImage, geminiEdit, imageGen, exportVars,
                 gestureBegan>>

\* onChange of the two prompt inputs
setPrompt(value) ==
  /\ Mounted
  /\ tick
  /\ prompt' = value
  /\ noSave
  /\ lastOp' = "setPrompt"
  /\ UNCHANGED <<carouselState, editingField, gestureVars, scale, error,
                 imageGenerationPrompt, textVars, asyncVars, exportVars, gestureBegan>>

setImageGenerationPrompt(value) ==
  /\ Mounted
  /\ tick
  /\ imageGenerationPrompt' = value
  /\ noSave
  /\ lastOp' = "setImageGenerationPrompt"
  /\ UNCHANGED <<carouselState, editingField, gestureVars, scale, error,
                 prompt, textVars, asyncVars, exportVars, gestureBegan>>

\* String.prototype.startsWith('data:') of an image reference that is a string
startsWithData(url) == url \in {DEFAULT_AVATAR_BASE64, "data:image/upload", "data:image/ai"}

\* handleGeminiEdit up to its await; the button is disabled while isProcessing.
\* With avatarUrl null the call of startsWith throws before anything is set.
handleGeminiEdit ==
  /\ Mounted
  /\ tick
  /\ ~isProcessing
  /\ IF trim(prompt) = <<>>
     THEN /\ error' = <<"Por favor, digite um comando para a IA.">>
          /\ noSave
          /\ UNCHANGED <<isProcessing, geminiEdit>>
     ELSE IF tweetData.avatarUrl = "null"
     THEN /\ noSave
          /\ UNCHANGED <<error, isProcessing, geminiEdit>>
     ELSE IF ~startsWithData(tweetData.avatarUrl)
     THEN /\ error' = <<"Por favor, faca upload de uma imagem antes de editar.">>
          /\ noSave
          /\ UNCHANGED <<isProcessing, geminiEdit>>
     ELSE /\ isProcessing' = TRUE
          /\ error' = <<>>
          /\ saveToHistory(carouselState)
          /\ geminiEdit' = <<[closure |-> carouselState]>>
  /\ lastOp' = "geminiEdit"
  /\ UNCHANGED <<carouselState, editingField, gestureVars, scale, formVars,
                 isGeneratingImage, readers, imageGen, exportVars, gestureBegan>>

\* editImageWithGemini resolves
geminiEditResolved ==
  /\ Mounted
  /\ tick
  /\ geminiEdit # <<>>
  /\ carouselState' = updateTweetData(carouselState,
       [tweetData EXCEPT !.avatarUrl = "data:image/ai"])
  /\ prompt' = <<>>
  /\ isProcessing' = FALSE
  /\ geminiEdit' = <<>>
  /\ noSave
  /\ lastOp' = "geminiEditResolved"
  /\ UNCHANGED <<editingField, gestureVars, scale, error, imageGenerationPrompt,
                 textVars, isGeneratingImage, readers, imageGen, exportVars, gestureBegan>>

\* editImageWithGemini rejects
\* mutant: the catch block without the finally block
geminiEditRejectedNoFinally ==
  /\ Mounted
  /\ tick
  /\ geminiEdit # <<>>
  /\ error' = <<"Falha ao editar a imagem. Tente um comando diferente.">>
  /\ geminiEdit' = <<>>
  /\ noSave
  /\ lastOp' = "geminiEditRejected"
  /\ UNCHANGED <<carouselState, editingField, gestureVars, scale, formVars, isProcessing,
                 isGeneratingImage, readers, imageGen, exportVars, gestureBegan>>
geminiEditRejected ==
  /\ Mounted
  /\ tick
  /\ geminiEdit # <<>>
  /\ error' = <<"Falha ao editar a imagem. Tente um comando diferente.">>
  /\ isProcessing' = FALSE
  /\ geminiEdit' = <<>>
  /\ noSave
  /\ lastOp' = "geminiEditRejected"
  /\ UNCHANGED <<carouselState, editingField, gestureVars, scale, formVars,
                 isGeneratingImage, readers, imageGen, exportVars, gestureBegan>>

\* handleImageGeneration up to its await; the button is disabled while generating
handleImageGeneration ==
  /\ Mounted
  /\ tick
  /\ ~isGeneratingImage
  /\ IF trim(imageGenerationPrompt) = <<>>
     THEN /\ error' = <<"Digite um comando para gerar a imagem.">>
          /\ noSave
          /\ UNCHANGED <<isGeneratingImage, imageGen>>
     ELSE /\ isGeneratingImage' = TRUE
          /\ error' = <<>>
          /\ saveToHistory(carouselState)
          /\ imageGen' = <<[closure |-> carouselState]>>
  /\ lastOp' = "imageGeneration"
  /\ UNCHANGED <<carouselState, editingField, gestureVars, scale, formVars,
                 isProcessing, readers, geminiEdit, exportVars, gestureBegan>>

\* generateImageWithGemini resolves
imageGenerationResolved ==
  /\ Mounted
  /\ tick
  /\ imageGen # <<>>
  /\ carouselState' = updateTweetData(carouselState, withTweetImage(tweetData, "data:image/ai"))
  /\ imageGenerationPrompt' = <<>>
  /\ isGeneratingImage' = FALSE
  /\ imageGen' = <<>>
  /\ noSave
  /\ lastOp' = "imageGenerationResolved"
  /\ UNCHANGED <<editingField, gestureVars, scale, error, prompt,
                 textVars, isProcessing, readers, geminiEdit, exportVars, gestureBegan>>

\* generateImageWithGemini rejects
imageGenerationRejected ==
  /\ Mounted
  /\ tick
  /\ imageGen # <<>>
  /\ error' = <<"Falha ao gerar imagem.">>
  /\ isGeneratingImage' = FALSE
  /\ imageGen' = <<>>
  /\ noSave
  /\ lastOp' = "imageGenerationRejected"
  /\ UNCHANGED <<carouselState, editingField, gestureVars, scale, formVars,
                 isProcessing, readers, geminiEdit, exportVars, gestureBegan>>

----------------------------------------------------------------------------
(* Validation and export *)

\* String.prototype.length of one piece
pieceLen(piece) ==
  CASE piece = "x421" -> 421
    [] piece = "x420" -> 420
    [] piece = "De vida aos seus posts" -> 110
    [] piece = "Pedro Barboza" -> 13
    [] piece = "@Pedro.barboza_" -> 15
    [] piece = "10" -> 2
    [] OTHER -> 1

RECURSIVE textLen(_)
textLen(t) == IF t = <<>> THEN 0 ELSE pieceLen(Head(t)) + textLen(Tail(t))

\* mutant: the length limit is off by one
issuesOfSlideOffByOne(slide, index) ==
  (IF trim(slide.content) = <<>> THEN << <<NumStr(index + 1), "texto vazio.">> >> ELSE <<>>)
  \o (IF textLen(slide.content) > 421
      THEN << <<NumStr(index + 1), "texto muito longo">> >> ELSE <<>>)
issuesOfSlide(slide, index) ==
  (IF trim(slide.content) = <<>> THEN << <<NumStr(index + 1), "texto vazio.">> >> ELSE <<>>)
  \o (IF textLen(slide.content) > 420
      THEN << <<NumStr(index + 1), "texto muito longo">> >> ELSE <<>>)

RECURSIVE issuesFrom(_, _)
issuesFrom(slides, index) ==
  IF index >= Len(slides) THEN <<>>
  ELSE issuesOfSlide(slides[index + 1], index) \o issuesFrom(slides, index + 1)

\* mutant: only the active slide is validated
activeSlideIssues(state) ==
  issuesOfSlide(state.slides[state.activeSlideIndex + 1], state.activeSlideIndex)
getValidationIssues(state) == issuesFrom(state.slides, 0)

\* String(i + 1).padStart(2, '0')
\* mutant: the number is not padded
padStartNone(n) == <<NumStr(n)>>
padStart2(n) == IF n < 10 THEN <<"0", NumStr(n)>> ELSE <<NumStr(n)>>

MaxExports == 2

\* the task of position k removed from the exports in flight
withoutTask(k) == SubSeq(exports, 1, k - 1) \o SubSeq(exports, k + 1, Len(exports))

\* handleDownloadCarousel up to its first await
handleDownloadCarousel ==
  /\ Mounted
  /\ tick
  /\ LET issues == getValidationIssues(carouselState)
     IN IF Len(issues) > 0
        THEN /\ error' = <<"Revise antes de exportar">> \o issues[1]
             /\ UNCHANGED <<carouselState, editingField, gestureVars, exports>>
        ELSE /\ Len(exports) < MaxExports
             /\ guidelines' = <<>>
             /\ editingField' = "none"
             /\ draggingItem' = "none"
             /\ resizingItem' = "none"
             /\ error' = <<>>
             /\ carouselState' = [carouselState EXCEPT !.activeSlideIndex = 0]
             /\ exports' = Append(exports,
                  [ pc |-> "timer", i |-> 0,
                    length |-> Len(carouselState.slides),
                    originalSlideIndex |-> carouselState.activeSlideIndex,
                    shown |-> 0 ])
             /\ UNCHANGED <<activeHandle, dragStartRef, resizeStartRef>>
  /\ lastOp' = "downloadCarousel"
  /\ noSave
  /\ UNCHANGED <<scale, formVars, asyncVars, outputs, gestureBegan>>

\* the 120 ms timer of task k fires: downloadCurrentPreview calls toJpeg on the
\* preview, which shows the slide that is active now
exportTimer(k) ==
  /\ Mounted
  /\ tick
  /\ k \in 1..Len(exports)
  /\ exports[k].pc = "timer"
  /\ exports' = [exports EXCEPT ![k].pc = "capture",
                                ![k].shown = carouselState.activeSlideIndex]
  /\ lastOp' = "exportTimer"
  /\ noSave
  /\ UNCHANGED <<carouselState, editingField, gestureVars, scale, error, formVars,
                 asyncVars, outputs, gestureBegan>>

\* toJpeg of task k resolves: the file is saved and the loop goes on
exportCaptured(k) ==
  /\ Mounted
  /\ tick
  /\ k \in 1..Len(exports)
  /\ exports[k].pc = "capture"
  /\ LET t == exports[k]
     IN /\ outputs' = Append(outputs,
             [file |-> <<"carrossel-">> \o padStart2(t.i + 1), shown |-> t.shown])
        /\ IF t.i + 1 < t.length
           THEN /\ carouselState' = [carouselState EXCEPT !.activeSlideIndex = t.i + 1]
                /\ exports' = [exports EXCEPT ![k].pc = "timer", ![k].i = t.i + 1]
           ELSE /\ carouselState' =
                     [carouselState EXCEPT !.activeSlideIndex = t.originalSlideIndex]
                /\ exports' = withoutTask(k)
  /\ lastOp' = "exportCaptured"
  /\ noSave
  /\ UNCHANGED <<editingField, gestureVars, scale, error, formVars, asyncVars,
                 gestureBegan>>

\* toJpeg of task k rejects: the catch block
\* mutant: the failure is caught inside the loop, which goes on
exportFailedGoesOn(k) ==
  /\ Mounted
  /\ tick
  /\ k \in 1..Len(exports)
  /\ exports[k].pc = "capture"
  /\ error' = <<"Falha ao gerar o download do carrossel.">>
  /\ IF exports[k].i + 1 < exports[k].length
     THEN /\ carouselState' = [carouselState EXCEPT !.activeSlideIndex = exports[k].i + 1]
          /\ exports' = [exports EXCEPT ![k].pc = "timer", ![k].i = exports[k].i + 1]
     ELSE /\ carouselState' =
               [carouselState EXCEPT !.activeSlideIndex = exports[k].originalSlideIndex]
          /\ exports' = withoutTask(k)
  /\ lastOp' = "exportFailed"
  /\ noSave
  /\ UNCHANGED <<editingField, gestureVars, scale, formVars, asyncVars, outputs,
                 gestureBegan>>
exportFailed(k) ==
  /\ Mounted
  /\ tick
  /\ k \in 1..Len(exports)
  /\ exports[k].pc = "capture"
  /\ error' = <<"Falha ao gerar o download do carrossel.">>
  /\ carouselState' =
       [carouselState EXCEPT !.activeSlideIndex = exports[k].originalSlideIndex]
  /\ exports' = withoutTask(k)
  /\ lastOp' = "exportFailed"
  /\ noSave
  /\ UNCHANGED <<editingField, gestureVars, scale, formVars, asyncVars, outputs,
                 gestureBegan>>

\* handleDownload up to its first await. It leaves error as it is unless the
\* validation fails.
\* mutant: the export of the active slide records a snapshot when it starts
handleDownloadRecorded ==
  /\ Mounted
  /\ tick
  /\ LET issues == getValidationIssues(carouselState)
     IN IF Len(issues) > 0
        THEN /\ error' = <<"Revise antes de exportar">> \o issues[1]
             /\ noSave
             /\ UNCHANGED <<editingField, gestureVars, exports>>
        ELSE /\ Len(exports) < MaxExports
             /\ saveToHistory(carouselState)
             /\ guidelines' = <<>>
             /\ editingField' = "none"
             /\ draggingItem' = "none"
             /\ resizingItem' = "none"
             /\ exports' = Append(exports,
                  [ pc |-> "singleTimer", i |-> 0, length |-> 1,
                    originalSlideIndex |-> carouselState.activeSlideIndex,
                    shown |-> 0 ])
             /\ UNCHANGED <<error, activeHandle, dragStartRef, resizeStartRef>>
  /\ lastOp' = "download"
  /\ UNCHANGED <<carouselState, scale, formVars, asyncVars, outputs, gestureBegan>>
handleDownload ==
  /\ Mounted
  /\ tick
  /\ LET issues == getValidationIssues(carouselState)
     IN IF Len(issues) > 0
        THEN /\ error' = <<"Revise antes de exportar">> \o issues[1]
             /\ UNCHANGED <<editingField, gestureVars, exports>>
        ELSE /\ Len(exports) < MaxExports
             /\ guidelines' = <<>>
             /\ editingField' = "none"
             /\ draggingItem' = "none"
             /\ resizingItem' = "none"
             /\ exports' = Append(exports,
                  [ pc |-> "singleTimer", i |-> 0, length |-> 1,
                    originalSlideIndex |-> carouselState.activeSlideIndex,
                    shown |-> 0 ])
             /\ UNCHANGED <<error, activeHandle, dragStartRef, resizeStartRef>>
  /\ lastOp' = "download"
  /\ noSave
  /\ UNCHANGED <<carouselState, scale, formVars, asyncVars, outputs, gestureBegan>>

\* the 50 ms timer of handleDownload fires and toJpeg is called on the preview
downloadTimer(k) ==
  /\ Mounted
  /\ tick
  /\ k \in 1..Len(exports)
  /\ exports[k].pc = "singleTimer"
  /\ exports' = [exports EXCEPT ![k].pc = "singleCapture",
                                ![k].shown = carouselState.activeSlideIndex]
  /\ lastOp' = "downloadTimer"
  /\ noSave
  /\ UNCHANGED <<carouselState, editingField, gestureVars, scale, error, formVars,
                 asyncVars, outputs, gestureBegan>>

\* toJpeg resolves: the file post-tweet-<Date.now()>.jpg is saved
downloadCaptured(k) ==
  /\ Mounted
  /\ tick
  /\ k \in 1..Len(exports)
  /\ exports[k].pc = "singleCapture"
  /\ outputs' = Append(outputs, [file |-> <<"post-tweet-", "now">>, shown |-> exports[k].shown])
  /\ exports' = withoutTask(k)
  /\ lastOp' = "downloadCaptured"
  /\ noSave
  /\ UNCHANGED <<carouselState, editingField, gestureVars, scale, error, formVars,
                 asyncVars, gestureBegan>>

\* toJpeg rejects: the catch block of handleDownload
downloadFailed(k) ==
  /\ Mounted
  /\ tick
  /\ k \in 1..Len(exports)
  /\ exports[k].pc = "singleCapture"
  /\ error' = <<"Falha ao gerar o download da imagem.">>
  /\ exports' = withoutTask(k)
  /\ lastOp' = "downloadFailed"
  /\ noSave
  /\ UNCHANGED <<carouselState, editingField, gestureVars, scale, formVars, asyncVars,
                 outputs, gestureBegan>>

----------------------------------------------------------------------------
(* Keyboard shortcuts *)

\* e.key.toLowerCase() of the keys of the shortcuts
toLowerCase(key) ==
  CASE key = "Z" -> "z"
    [] key = "E" -> "e"
    [] key = "D" -> "d"
    [] OTHER -> key

\* a key event that matches no shortcut, or whose shortcut returns at once
keyIgnored ==
  /\ Mounted
  /\ tick
  /\ noSave
  /\ lastOp' = "keyDown"
  /\ UNCHANGED <<carouselState, editingField, gestureVars, scale, error, formVars,
                 asyncVars, exportVars, gestureBegan>>

\* keydown on the window with metaKey or ctrlKey down; key is e.key, which is
\* the upper-case letter or the lower-case one when shift is down, by platform,
\* and isTypingTarget tells that the target is an INPUT or a TEXTAREA
handleKeyDown(key, shiftKey, isTypingTarget) ==
  IF key = "z"
  THEN IF editingField # "none" THEN keyIgnored
       ELSE IF shiftKey THEN handleRedo ELSE handleUndo
  ELSE IF shiftKey /\ toLowerCase(key) = "e" THEN handleDownloadCarousel
  ELSE IF toLowerCase(key) = "e" THEN handleDownload
  ELSE IF toLowerCase(key) = "d" /\ ~isTypingTarget THEN handleDuplicateSlide
  ELSE IF key = "ArrowRight" /\ ~isTypingTarget
  THEN IF carouselState.activeSlideIndex < Len(carouselState.slides) - 1
       THEN handleSelectSlide(carouselState.activeSlideIndex + 1)
       ELSE keyIgnored
  ELSE IF key = "ArrowLeft" /\ ~isTypingTarget
  THEN IF carouselState.activeSlideIndex > 0
       THEN handleSelectSlide(carouselState.activeSlideIndex - 1)
       ELSE keyIgnored
  ELSE keyIgnored

----------------------------------------------------------------------------
(* Initial states *)

\* the refs, the transient state and the bookkeeping of the model at construction
InitRest ==
  /\ editingField = "none"
  /\ draggingItem = "none" /\ resizingItem = "none" /\ activeHandle = "none"
  /\ guidelines = <<>>
  /\ dragStartRef = <<>> /\ resizeStartRef = <<>>
  /\ scale = [n |-> 1, d |-> 2]
  /\ error = <<>>
  /\ isProcessing = FALSE /\ isGeneratingImage = FALSE
  /\ prompt = <<>> /\ imageGenerationPrompt = <<>>
  /\ preEditStateRef = <<>> /\ preBulkContentStateRef = <<>>
  /\ bulkContentChangedRef = FALSE
  /\ focused = <<>> /\ focusBegan = <<>>
  /\ readers = <<>> /\ geminiEdit = <<>> /\ imageGen = <<>>
  /\ exports = <<>> /\ outputs = <<>>
  /\ lastOp = "init" /\ gestureBegan = <<>> /\ redoDropped = 0

\* useState({ slides: [DEFAULT_TWEET_DATA], activeSlideIndex: 0 }), empty stacks
Init ==
  /\ carouselState = [slides |-> <<DEFAULT_TWEET_DATA>>, activeSlideIndex |-> 0]
  /\ history = <<>>
  /\ redoStack = <<>>
  /\ InitRest
  /\ stepsLeft = MaxSteps
  /\ run = [phase |-> "off", n |-> 0, u |-> 0, base |-> <<>>]

\* The carousel and the undo stack after k - 1 calls of handleAddSlide from
\* construction, followed by a visit of each bulk text area in turn that types
\* the text cs[i] into slide i; every visit that changes the text records the
\* carousel of before it when the text area loses the focus.
RECURSIVE addedCarousel(_)
addedCarousel(k) ==
  IF k <= 1 THEN [slides |-> <<DEFAULT_TWEET_DATA>>, activeSlideIndex |-> 0]
  ELSE addSlideResult(addedCarousel(k - 1), addedCarousel(k - 1))

RECURSIVE addedHistory(_)
addedHistory(k) ==
  IF k <= 1 THEN <<>>
  ELSE savedHistory(addedHistory(k - 1), addedCarousel(k - 1))

contentUpTo(cs, j) ==
  LET k == Len(cs)
  IN [ addedCarousel(k) EXCEPT
         !.slides = [i \in 1..k |->
                       IF i <= j THEN [addedCarousel(k).slides[i] EXCEPT !.content = cs[i]]
                       ELSE addedCarousel(k).slides[i]] ]

RECURSIVE contentHistory(_, _)
contentHistory(cs, j) ==
  IF j = 0 THEN addedHistory(Len(cs))
  ELSE IF cs[j] = DEFAULT_TWEET_DATA.content THEN contentHistory(cs, j - 1)
  ELSE savedHistory(contentHistory(cs, j - 1), contentUpTo(cs, j - 1))

\* the text NumStr(i) in slide i
typedContents(k) == [i \in 1..k |-> <<NumStr(i)>>]
typedCarousel(k) == contentUpTo(typedContents(k), k)
typedHistory(k) == contentHistory(typedContents(k), k)

StartSlideCounts == (1..MaxStartSlides) \cup {MAX_SLIDES - 1, MAX_SLIDES}

InitSlides ==
  /\ \E k \in StartSlideCounts :
       /\ carouselState = typedCarousel(k)
       /\ history = typedHistory(k)
  /\ redoStack = <<>>
  /\ InitRest
  /\ stepsLeft = MaxSteps
  /\ run = [phase |-> "off", n |-> 0, u |-> 0, base |-> <<>>]

\* The same with a tweet image uploaded into the active slide afterwards (img),
\* and with a background change after that which was then undone (undone).
imagedCarousel(k, img) ==
  IF img
  THEN updateTweetData(typedCarousel(k),
         withTweetImage(typedCarousel(k).slides[k], "data:image/upload"))
  ELSE typedCarousel(k)

imagedHistory(k, img) ==
  IF img
  THEN savedHistory(typedHistory(k), typedCarousel(k))
  ELSE typedHistory(k)

darkCarousel(k, img) ==
  updateTweetData(imagedCarousel(k, img),
                  [imagedCarousel(k, img).slides[k] EXCEPT !.background = "#15202B"])

InitEdited ==
  /\ \E k \in 1..MaxStartSlides, img \in BOOLEAN, undone \in BOOLEAN :
       /\ carouselState = imagedCarousel(k, img)
       /\ history = imagedHistory(k, img)
       /\ redoStack = IF undone THEN <<cloneCarouselState(darkCarousel(k, img))>> ELSE <<>>
  /\ InitRest

----------------------------------------------------------------------------
(* Specifications *)

SlideIndexes == 0..(Len(carouselState.slides) - 1)

\* the slide manager with undo and redo
NextSlides ==
  \/ handleAddSlide
  \/ handleDuplicateSlide
  \/ handleRemoveSlide
  \/ \E direction \in {"left", "right"} : handleMoveSlide(direction)
  \/ \E index \in SlideIndexes : handleSelectSlide(index)
  \/ handleUndo
  \/ handleRedo

SpecSlides == (Init \/ InitSlides) /\ [][NextSlides]_vars

\* the slide manager while carousel exports are in flight
NextExport ==
  \/ NextSlides
  \/ handleDownloadCarousel
  \/ \E k \in 1..MaxExports : exportTimer(k)
  \/ \E k \in 1..MaxExports : exportCaptured(k)
  \/ \E k \in 1..MaxExports : exportFailed(k)

SpecExport == (Init \/ InitSlides) /\ [][NextExport]_vars

(* Inputs of the editing handlers *)
Elements == {"header", "content", "tweetImage"}
Handles == {"nw", "ne", "sw", "se"}
EditFields == {"displayName", "handle", "content"}
\* pointer positions in screen pixels
Pointers == { [x |-> 0, y |-> 0], [x |-> 5, y |-> 100], [x |-> 170, y |-> 5] }
TypedValues == { <<>>, <<"a">> }
TemplateIds == CONTENT_TEMPLATES \cup {"unknown"}
SliderInputs == {500, 1500}

Idle == draggingItem = "none" /\ resizingItem = "none" /\ editingField = "none"

\* one of the operations that record a snapshot, started from the idle editor
StartOperation ==
  \/ handleAddSlide
  \/ handleDuplicateSlide
  \/ handleRemoveSlide
  \/ \E direction \in {"left", "right"} : handleMoveSlide(direction)
  \/ \E templateId \in TemplateIds : handleApplyTemplate(templateId)
  \/ handleCopyStyleToAllSlides
  \/ \E bgStyle \in BACKGROUND_OPTIONS : handleBackgroundChange(bgStyle)
  \/ \E snippet \in CONTENT_SNIPPETS : handleApplySnippetToActiveSlide(snippet)
  \/ removeTweetImage
  \/ \E element \in {"header", "content"}, value \in SliderInputs : sliderChange(element, value)
  \/ \E element \in Elements : initiateDrag(0, 0, element, 100, 50)
  \/ \E element \in Elements, handle \in {"se", "nw"} : initiateResize(0, 0, element, handle)
  \/ \E element \in EditFields : handleDoubleClick(element)

\* the rest of a drag, resize or inline-edit session
ContinueSession ==
  \/ /\ draggingItem # "none" \/ resizingItem # "none"
     /\ \/ \E p \in Pointers : processMove(p.x, p.y)
        \/ handleInteractionEnd
  \/ /\ editingField # "none"
     /\ \/ \E value \in TypedValues : handleEditChange(value)
        \/ handleEditBlur

\* N operations, each run to its end, and then N undos
NextHistory ==
  \/ /\ Idle /\ run.phase = "ops" /\ run.n < MaxRunOps
     /\ StartOperation
  \/ /\ ~Idle
     /\ ContinueSession
  \/ /\ Idle /\ run.u < run.n
     /\ handleUndo

InitHistory ==
  /\ InitEdited
  /\ stepsLeft = 4 * MaxRunOps
  /\ run = [phase |-> "ops", n |-> 0, u |-> 0, base |-> <<carouselState>>]

SpecHistory == InitHistory /\ [][NextHistory]_vars

\* uploads, the image services and gestures, with undo and redo in between
NextAsync ==
  \/ \E kind \in {"avatar", "tweetImage"} : handleUpload(kind)
  \/ \E k \in 1..MaxReaders, result \in ReadResults : readerLoadEnd(k, result)
  \/ \E value \in {<<"a">>} : setPrompt(value)
  \/ handleGeminiEdit
  \/ geminiEditResolved
  \/ geminiEditRejected
  \/ \E value \in {<<"a">>} : setImageGenerationPrompt(value)
  \/ handleImageGeneration
  \/ imageGenerationResolved
  \/ imageGenerationRejected
  \/ initiateDrag(0, 0, "content", 100, 50)
  \/ initiateResize(0, 0, "header", "se")
  \/ \E p \in Pointers : processMove(p.x, p.y)
  \/ handleInteractionEnd
  \/ handleUndo
  \/ handleRedo

InitAsync ==
  /\ InitEdited
  /\ stepsLeft = MaxSteps
  /\ run = [phase |-> "off", n |-> 0, u |-> 0, base |-> <<>>]

SpecAsync == InitAsync /\ [][NextAsync]_vars

\* every handler that records a snapshot, whatever the redo stack holds
MaxRecordSteps == 2

NextRecord ==
  \/ StartOperation
  \/ \E kind \in {"avatar", "tweetImage"} : handleUpload(kind)
  \/ \E value \in {<<"a">>} : setPrompt(value)
  \/ handleGeminiEdit
  \/ \E value \in {<<"a">>} : setImageGenerationPrompt(value)
  \/ handleImageGeneration
  \/ handleUndo
  \/ handleRedo

InitRecord ==
  /\ InitEdited
  /\ stepsLeft = MaxRecordSteps
  /\ run = [phase |-> "off", n |-> 0, u |-> 0, base |-> <<>>]

SpecRecord == InitRecord /\ [][NextRecord]_vars

\* the scenario of three added slides, a move to the left and four undos, from
\* construction and from carousels that were edited before, any slide selected
ScenarioSteps == 8

stepsTaken == ScenarioSteps - stepsLeft

constructed == [slides |-> <<DEFAULT_TWEET_DATA>>, activeSlideIndex |-> 0]

NextScenario ==
  \/ stepsTaken < 3 /\ handleAddSlide
  \/ stepsTaken = 3 /\ handleMoveSlide("left")
  \/ stepsTaken > 3 /\ handleUndo

InitScenario ==
  /\ \/ /\ carouselState = constructed
        /\ history = <<>>
        /\ redoStack = <<>>
        /\ InitRest
     \/ \E k \in 1..MaxStartSlides, img \in BOOLEAN, undone \in BOOLEAN, index \in 0..(MaxStartSlides - 1) :
          /\ index < k
          /\ carouselState = [imagedCarousel(k, img) EXCEPT !.activeSlideIndex = index]
          /\ history = imagedHistory(k, img)
          /\ redoStack = IF undone THEN <<cloneCarouselState(darkCarousel(k, img))>> ELSE <<>>
          /\ InitRest
  /\ stepsLeft = ScenarioSteps
  /\ run = [phase |-> "ops", n |-> 0, u |-> 0, base |-> <<carouselState>>]

SpecScenario == InitScenario /\ [][NextScenario]_vars

\* drags of the regions of the card; widths of getBoundingClientRect() in
\* screen pixels. A region is as wide as the text column (880 card pixels)
\* times its own scale: 200, 860 and 880 card pixels at the view scale 1/2.
RectWidths == {100, 430, 440}

NextDrag ==
  \/ \E element \in Elements, rectWidth \in RectWidths : initiateDrag(0, 0, element, rectWidth, 50)
  \/ \E p \in Pointers : processMove(p.x, p.y)
  \/ handleInteractionEnd
  \/ handleUndo

SpecDrag == InitAsync /\ [][NextDrag]_vars

\* resizes with pointer moves near and far, the sliders, copies of the style
\* and of slides, undo and redo
FarPointers == { [x |-> 300, y |-> 0 - 100], [x |-> 100000, y |-> 100000],
                 [x |-> 0 - 100000, y |-> 0 - 100000] }

NextScale ==
  \/ \E element \in Elements, handle \in Handles : initiateResize(0, 0, element, handle)
  \/ \E p \in FarPointers : processMove(p.x, p.y)
  \/ handleInteractionEnd
  \/ \E element \in {"header", "content"}, value \in SliderInputs : sliderChange(element, value)
  \/ handleCopyStyleToAllSlides
  \/ handleAddSlide
  \/ handleUndo
  \/ handleRedo

\* a carousel whose active slide has a tweet image, so that all three regions
\* are rendered
InitScale ==
  /\ carouselState = imagedCarousel(MaxStartSlides, TRUE)
  /\ history = imagedHistory(MaxStartSlides, TRUE)
  /\ redoStack = <<>>
  /\ InitRest
  /\ stepsLeft = MaxSteps
  /\ run = [phase |-> "off", n |-> 0, u |-> 0, base |-> <<>>]

SpecScale == InitScale /\ [][NextScale]_vars

\* carousel exports one at a time, with nothing else running meanwhile, after
\* any slide was selected
MaxExportSteps == 8

NextCarousel ==
  \/ /\ exports = <<>> /\ outputs = <<>>
     /\ \/ \E index \in SlideIndexes : handleSelectSlide(index)
        \/ handleDownloadCarousel
  \/ exportTimer(1)
  \/ exportCaptured(1)
  \/ exportFailed(1)

InitCarousel ==
  /\ InitEdited
  /\ stepsLeft = MaxExportSteps
  /\ run = [phase |-> "off", n |-> 0, u |-> 0, base |-> <<>>]

SpecCarousel == InitCarousel /\ [][NextCarousel]_vars

\* exports of carousels whose texts are valid, empty or too long, with inline
\* edits of the content, slide selections and a drag before them
MaxValidateSteps == 3

StartContents == { <<"a">>, <<>>, <<"x421">> }
TypedContents == { <<" ">>, <<"x420">>, <<"x420", " ">> }

NextValidate ==
  \/ handleDoubleClick("content")
  \/ \E value \in TypedContents : handleEditChange(value)
  \/ \E index \in SlideIndexes : handleSelectSlide(index)
  \/ initiateDrag(0, 0, "content", 100, 50)
  \/ handleDownload
  \/ downloadTimer(1)
  \/ downloadCaptured(1)
  \/ downloadFailed(1)
  \/ handleDownloadCarousel
  \/ exportTimer(1)
  \/ exportCaptured(1)
  \/ exportFailed(1)

InitValidate ==
  /\ \E k \in 1..MaxStartSlides : \E cs \in [1..k -> StartContents] :
       /\ carouselState = contentUpTo(cs, k)
       /\ history = contentHistory(cs, k)
  /\ redoStack = <<>>
  /\ InitRest
  /\ stepsLeft = MaxValidateSteps
  /\ run = [phase |-> "off", n |-> 0, u |-> 0, base |-> <<>>]

SpecValidate == InitValidate /\ [][NextValidate]_vars

\* sessions of the text fields of the side bar: the focus, changes of the
\* value (texts typed, or the text of the focus typed again) and the blur,
\* with slide selections and undos between two sessions
MaxTextSteps == 5

\* the value of the focused field when it got the focus
focusValue ==
  fieldOf(focusBegan[1].carouselState.slides[focused[1].index + 1], focused[1].field)

NextText ==
  \/ /\ noFocus
     /\ \/ \E field \in {"displayName", "handle"} : handleInputFocus(field)
        \/ \E slideIndex \in SlideIndexes : handleBulkContentFocus(slideIndex)
        \/ \E index \in SlideIndexes : handleSelectSlide(index)
        \/ handleUndo
  \/ /\ ~noFocus
     /\ \/ \E field \in {"displayName", "handle"}, value \in TypedValues \cup {focusValue} :
             handleInputChange(field, value)
        \/ \E field \in {"displayName", "handle"} : handleInputBlur(field)
        \/ \E slideIndex \in SlideIndexes, value \in TypedValues \cup {focusValue} :
             handleBulkContentChange(slideIndex, value)
        \/ handleBulkContentBlur

InitText ==
  /\ InitEdited
  /\ stepsLeft = MaxTextSteps
  /\ run = [phase |-> "off", n |-> 0, u |-> 0, base |-> <<>>]

SpecText == InitText /\ [][NextText]_vars

\* templates applied to carousels of every size from 1 to MAX_SLIDES
NextTemplate ==
  \/ \E templateId \in TemplateIds : handleApplyTemplate(templateId)
  \/ handleAddSlide
  \/ handleRemoveSlide
  \/ handleMoveSlide("left")

SpecTemplate == (Init \/ InitSlides) /\ [][NextTemplate]_vars

\* inline edit sessions with starts of drags and resizes, pointer moves and
\* the end of the gesture before, during and after them
MaxEditSteps == 4

NextEdit ==
  \/ \E element \in EditFields : handleDoubleClick(element)
  \/ \E value \in TypedValues : handleEditChange(value)
  \/ handleEditBlur
  \/ \E element \in Elements : initiateDrag(0, 0, element, 100, 50)
  \/ \E handle \in {"se", "nw"} : initiateResize(0, 0, "content", handle)
  \/ \E p \in Pointers : processMove(p.x, p.y)
  \/ handleInteractionEnd

InitEdit ==
  /\ InitEdited
  /\ stepsLeft = MaxEditSteps
  /\ run = [phase |-> "off", n |-> 0, u |-> 0, base |-> <<>>]

SpecEdit == InitEdit /\ [][NextEdit]_vars

\* resizes one after the other from every handle of every region, the pointer
\* starting at one of two points and moving outward and inward, a little and
\* beyond the range
MaxResizeSteps == 5

ResizeStarts == { [x |-> 0, y |-> 0], [x |-> 10, y |-> 20] }
ResizePointers == { [x |-> 300, y |-> 0 - 100], [x |-> 0 - 300, y |-> 100],
                    [x |-> 40, y |-> 60], [x |-> 0 - 40, y |-> 0 - 60],
                    [x |-> 100000, y |-> 100000] }

NextResize ==
  \/ /\ resizingItem = "none"
     /\ \E element \in Elements, handle \in Handles, p \in ResizeStarts :
          initiateResize(p.x, p.y, element, handle)
  \/ /\ resizingItem # "none"
     /\ \/ \E p \in ResizePointers : processMove(p.x, p.y)
        \/ handleInteractionEnd

InitResize ==
  /\ carouselState = imagedCarousel(1, TRUE)
  /\ history = imagedHistory(1, TRUE)
  /\ redoStack = <<>>
  /\ InitRest
  /\ stepsLeft = MaxResizeSteps
  /\ run = [phase |-> "off", n |-> 0, u |-> 0, base |-> <<>>]

SpecResize == InitResize /\ [][NextResize]_vars

\* drags while the container of the preview is measured again: sizes that are
\* empty, as small as the padding or smaller, and sizes that fit the card at
\* 1/4, 1/2 and 1; a region of w card pixels is w times the view scale wide on
\* the screen
MaxViewSteps == 5

Containers ==
  { <<>> } \cup
  { <<[clientWidth |-> size[1], clientHeight |-> size[2]]>> :
      size \in { <<0, 0>>, <<572, 0>>, <<32, 752>>, <<5, 752>>, <<302, 752>>,
                 <<572, 752>>, <<1112, 1472>> } }

rectOf(cardPixels) == (cardPixels * Abs(scale.n)) \div scale.d

NextView ==
  \/ \E container \in Containers : calculateScale(container)
  \/ \E element \in {"header", "content"}, cardPixels \in {200, 880} :
       initiateDrag(0, 0, element, rectOf(cardPixels), rectOf(100))
  \/ \E p \in Pointers : processMove(p.x, p.y)
  \/ handleInteractionEnd

InitView ==
  /\ carouselState = imagedCarousel(1, FALSE)
  /\ history = imagedHistory(1, FALSE)
  /\ redoStack = <<>>
  /\ InitRest
  /\ stepsLeft = MaxViewSteps
  /\ run = [phase |-> "off", n |-> 0, u |-> 0, base |-> <<>>]

SpecView == InitView /\ [][NextView]_vars

\* the shortcuts, typed while a text field of the side bar has the focus and
\* while none has; a key event of an inline edit never reaches the window (the
\* input stops it), so the keys come while no inline edit is open
MaxKeySteps == 3

Keys == {"z", "Z", "e", "E", "d", "D", "ArrowLeft", "ArrowRight"}

NextKeys ==
  \/ /\ noFocus
     /\ \/ \E field \in {"displayName", "handle"} : handleInputFocus(field)
        \/ \E slideIndex \in SlideIndexes : handleBulkContentFocus(slideIndex)
  \/ /\ ~noFocus
     /\ \/ \E field \in {"displayName", "handle"} : handleInputBlur(field)
        \/ handleBulkContentBlur
  \/ /\ editingField = "none"
     /\ \E key \in Keys, shiftKey \in BOOLEAN : handleKeyDown(key, shiftKey, ~noFocus)

InitKeys ==
  /\ \E k \in 1..MaxStartSlides, img \in BOOLEAN, undone \in BOOLEAN, index \in 0..(MaxStartSlides - 1) :
       /\ index < k
       /\ carouselState = [imagedCarousel(k, img) EXCEPT !.activeSlideIndex = index]
       /\ history = imagedHistory(k, img)
       /\ redoStack = IF undone THEN <<cloneCarouselState(darkCarousel(k, img))>> ELSE <<>>
  /\ InitRest
  /\ stepsLeft = MaxKeySteps
  /\ run = [phase |-> "off", n |-> 0, u |-> 0, base |-> <<>>]

SpecKeys == InitKeys /\ [][NextKeys]_vars

\* every edit of one slide, in a carousel of two slides with either of them
\* active and both prompts typed, and slide selections in between, also
\* between the start of a file read or of a call of an image service and its
\* result
MaxPerSlideSteps == 3

NextPerSlide ==
  \/ \E index \in SlideIndexes : handleSelectSlide(index)
  \/ handleInputFocus("handle")
  \/ handleInputChange("handle", <<"a">>)
  \/ handleInputBlur("handle")
  \/ handleDoubleClick("content")
  \/ handleEditChange(<<"a">>)
  \/ handleBackgroundChange("#15202B")
  \/ handleApplySnippetToActiveSlide(<<"CTA: salve esse post para usar depois.">>)
  \/ sliderChange("header", 1500)
  \/ removeTweetImage
  \/ initiateDrag(0, 0, "content", 100, 50)
  \/ initiateResize(0, 0, "header", "se")
  \/ processMove(5, 100)
  \/ \E kind \in {"avatar", "tweetImage"} : handleUpload(kind)
  \/ readerLoadEnd(1, "data:image/upload")
  \/ handleGeminiEdit
  \/ geminiEditResolved
  \/ handleImageGeneration
  \/ imageGenerationResolved

InitPerSlide ==
  /\ \E img \in BOOLEAN, index \in {0, 1} :
       /\ carouselState = [imagedCarousel(2, img) EXCEPT !.activeSlideIndex = index]
       /\ history = imagedHistory(2, img)
  /\ redoStack = <<>>
  /\ editingField = "none"
  /\ draggingItem = "none" /\ resizingItem = "none" /\ activeHandle = "none"
  /\ guidelines = <<>>
  /\ dragStartRef = <<>> /\ resizeStartRef = <<>>
  /\ scale = [n |-> 1, d |-> 2]
  /\ error = <<>>
  /\ isProcessing = FALSE /\ isGeneratingImage = FALSE
  /\ prompt = <<"a">> /\ imageGenerationPrompt = <<"a">>
  /\ preEditStateRef = <<>> /\ preBulkContentStateRef = <<>>
  /\ bulkContentChangedRef = FALSE
  /\ focused = <<>> /\ focusBegan = <<>>
  /\ readers = <<>> /\ geminiEdit = <<>> /\ imageGen = <<>>
  /\ exports = <<>> /\ outputs = <<>>
  /\ lastOp = "init" /\ gestureBegan = <<>> /\ redoDropped = 0
  /\ stepsLeft = MaxPerSlideSteps
  /\ run = [phase |-> "off", n |-> 0, u |-> 0, base |-> <<>>]

SpecPerSlide == InitPerSlide /\ [][NextPerSlide]_vars

\* the operations that can be refused, on a carousel of one slide, with a
\* valid or an empty text and with or without a change of the background that
\* was undone, and on a carousel of MAX_SLIDES slides after such a change; a
\* failed read of the avatar, a prompt and an inline edit set the other
\* refusals up
MaxRejectSteps == 4

NextReject ==
  \/ handleAddSlide
  \/ handleDuplicateSlide
  \/ handleRemoveSlide
  \/ \E direction \in {"left", "right"} : handleMoveSlide(direction)
  \/ handleApplyTemplate("unknown")
  \/ handleDoubleClick("handle")
  \/ initiateDrag(0, 0, "content", 100, 50)
  \/ handleUpload("avatar")
  \/ readerLoadEnd(1, "null")
  \/ setPrompt(<<"a">>)
  \/ handleGeminiEdit
  \/ setImageGenerationPrompt(<<" ">>)
  \/ handleImageGeneration
  \/ handleDownload
  \/ handleDownloadCarousel

InitReject ==
  /\ \E k \in {1, MAX_SLIDES}, first \in {<<"1">>, <<>>}, undone \in BOOLEAN :
       /\ k = MAX_SLIDES => first = <<"1">> /\ undone
       /\ LET cs == [i \in 1..k |-> IF i = 1 THEN first ELSE <<NumStr(i)>>]
              base == contentUpTo(cs, k)
          IN /\ carouselState = base
             /\ history = contentHistory(cs, k)
             /\ redoStack =
                  IF undone
                  THEN <<cloneCarouselState(
                           updateTweetData(base, [base.slides[k] EXCEPT !.background = "#15202B"]))>>
                  ELSE <<>>
  /\ InitRest
  /\ stepsLeft = MaxRejectSteps
  /\ run = [phase |-> "off", n |-> 0, u |-> 0, base |-> <<>>]

SpecReject == InitReject /\ [][NextReject]_vars

\* drags and resizes one after the other, the pointer starting at one of two
\* points, moving near and far beyond the range of the scale, and coming back
\* to the point of the start: in a resize from beyond the range, where the
\* scale is held at an end of it, in a drag once the element has moved
MaxSessionSteps == 4

AwayPointers == { [x |-> 5, y |-> 100], [x |-> 170, y |-> 5],
                  [x |-> 2000, y |-> 500], [x |-> 100000, y |-> 50000] }

NextSession ==
  \/ /\ resizingItem = "none" /\ draggingItem = "none"
     /\ \/ \E element \in {"header", "content"}, p \in ResizeStarts :
             initiateDrag(p.x, p.y, element, 100, 50)
        \/ \E element \in {"header", "content"}, handle \in Handles, p \in ResizeStarts :
             initiateResize(p.x, p.y, element, handle)
  \/ /\ resizingItem # "none" \/ draggingItem # "none"
     /\ \/ \E p \in AwayPointers : processMove(p.x, p.y)
        \/ /\ resizingItem # "none"
           /\ scaleOf(tweetData, resizingItem) # resizeStartRef[1].initialScale
           /\ scaleOf(tweetData, resizingItem) \in {MinScale, MaxScale}
           /\ processMove(resizeStartRef[1].startX, resizeStartRef[1].startY)
        \/ /\ draggingItem # "none"
           /\ positionOf(tweetData, draggingItem)
                # [x |-> dragStartRef[1].initialX, y |-> dragStartRef[1].initialY]
           /\ processMove(dragStartRef[1].x, dragStartRef[1].y)
        \/ handleInteractionEnd

InitSession ==
  /\ carouselState = imagedCarousel(1, FALSE)
  /\ history = imagedHistory(1, FALSE)
  /\ redoStack = <<>>
  /\ InitRest
  /\ stepsLeft = MaxSessionSteps
  /\ run = [phase |-> "off", n |-> 0, u |-> 0, base |-> <<>>]

SpecSession == InitSession /\ [][NextSession]_vars

----------------------------------------------------------------------------
(* Claims *)

slides == carouselState.slides
activeSlideIndex == carouselState.activeSlideIndex
docState == [carouselState |-> carouselState, history |-> history, redoStack |-> redoStack]

\* C1: after N history-recording operations, each run to its end before the
\* next starts, followed by N undos, the carousel document equals the document
\* before the first operation.
C1_OpsThenUndos ==
  (run.phase = "undos" /\ run.u = run.n) => carouselState = run.base[1]

\* two operations that changed the document were undone
C1_Witness ==
  /\ run.phase = "undos"
  /\ run.n >= 2
  /\ run.u = run.n
  /\ Len(redoStack) >= 2
  /\ redoStack[1] # run.base[1]
  /\ redoStack[2] # redoStack[1]

\* the document at the start of the action that the step completes
beganDocument ==
  CASE lastOp' = "geminiEditResolved"      -> geminiEdit[1].closure
    [] lastOp' = "imageGenerationResolved" -> imageGen[1].closure
    [] lastOp' = "move"                    -> gestureBegan[1]
    [] OTHER                               -> carouselState

onUndoStackAfter(doc) == \E i \in 1..Len(history') : history'[i] = doc

\* C4: whenever a step other than undo and redo changes a slide or the order
\* of the slides, the undo stack then holds a snapshot equal to the document
\* as it was when the action began: the handler call for a synchronous
\* handler, the issue of the read or of the service call for an asynchronous
\* result, the start of the gesture for a pointer move.
C4_SnapshotBeforeChange ==
  [][ (slides' # slides /\ lastOp' \notin {"undo", "redo", "editChange"}) =>
        IF lastOp' = "readerLoadEnd"
        THEN \E k \in 1..Len(readers) :
               /\ readers' = SubSeq(readers, 1, k - 1) \o SubSeq(readers, k + 1, Len(readers))
               /\ onUndoStackAfter(readers[k].closure)
        ELSE onUndoStackAfter(beganDocument) ]_vars

\* C2: undo and redo are mutual inverses. In every reachable state with a
\* non-empty redo stack, redo followed by undo gives back the document, the
\* undo stack and the redo stack; with a non-empty undo stack, undo followed by
\* redo gives them back as well.
C2_UndoRedoInverse ==
  /\ Len(redoStack) > 0 =>
       LET a == redoResult(carouselState, history, redoStack)
       IN undoResult(a.carouselState, a.history, a.redoStack) = docState
  /\ Len(history) > 0 =>
       LET b == undoResult(carouselState, history, redoStack)
       IN redoResult(b.carouselState, b.history, b.redoStack) = docState

\* two undos have left two different states on the redo stack
C2_Witness ==
  /\ lastOp = "undo"
  /\ Len(redoStack) >= 2
  /\ redoStack[1] # redoStack[2]
  /\ Len(history) > 0

\* C3: in every reachable state the carousel has between 1 and MAX_SLIDES
\* slides and activeSlideIndex indexes one of them, also while a carousel
\* export is waiting and the user adds or removes slides or undoes.
C3_SlidesValid ==
  /\ Len(slides) >= 1
  /\ Len(slides) <= MAX_SLIDES
  /\ activeSlideIndex >= 0
  /\ activeSlideIndex < Len(slides)

RecordingOps ==
  { "addSlide", "duplicateSlide", "removeSlide", "moveSlideLeft", "moveSlideRight",
    "applyTemplate",
    "copyStyle", "backgroundChange", "snippet", "removeTweetImage", "slider",
    "dragStart", "resizeStart", "doubleClick", "fileUpload", "tweetImageUpload",
    "geminiEdit", "imageGeneration" }

\* C5: a step that records a snapshot (the undo stack grows and the step is
\* not a redo) leaves the redo stack empty.
C5_RedoCleared ==
  [][ (Len(history') > Len(history) /\ lastOp' # "redo") => redoStack' = <<>> ]_vars

\* a recording operation has just discarded a redo stack that was not empty
C5_Witness ==
  /\ lastOp \in RecordingOps
  /\ redoDropped > 0
  /\ redoStack = <<>>

\* C6: undo with an empty undo stack and redo with an empty redo stack change
\* neither the document nor the two stacks.
C6_EmptyNoOp ==
  [][ /\ (lastOp' = "undo" /\ stepsLeft' # stepsLeft /\ Len(history) = 0)
         => UNCHANGED docVars
      /\ (lastOp' = "redo" /\ stepsLeft' # stepsLeft /\ Len(redoStack) = 0)
         => UNCHANGED docVars ]_vars

\* an undo was handled at construction, where both stacks are empty
C6_Witness ==
  /\ lastOp = "undo"
  /\ stepsLeft = MaxSteps - 1
  /\ Len(history) = 0
  /\ Len(redoStack) = 0

\* C7: addSlide below the limit appends one slide equal to the slide that was
\* active, keeps the existing slides and makes the new last index active.
C7_AddSlide ==
  [][ (lastOp' = "addSlide" /\ stepsLeft' # stepsLeft /\ Len(slides) < MAX_SLIDES) =>
        /\ Len(slides') = Len(slides) + 1
        /\ \A i \in 1..Len(slides) : slides'[i] = slides[i]
        /\ slides'[Len(slides) + 1] = slides[activeSlideIndex + 1]
        /\ activeSlideIndex' = Len(slides) ]_vars

\* a slide that is neither the last nor the default one was copied to the end
C7_Witness ==
  /\ lastOp = "addSlide"
  /\ Len(slides) >= 3
  /\ activeSlideIndex = Len(slides) - 1
  /\ slides[Len(slides)] = slides[1]
  /\ slides[1] # slides[2]
  /\ slides[1] # DEFAULT_TWEET_DATA

\* C8: duplicateSlide below the limit inserts a copy of the active slide right
\* after it, keeps the other slides in order and makes the copy active.
C8_DuplicateSlide ==
  [][ (lastOp' = "duplicateSlide" /\ stepsLeft' # stepsLeft /\ Len(slides) < MAX_SLIDES) =>
        /\ Len(slides') = Len(slides) + 1
        /\ \A i \in 1..(activeSlideIndex + 1) : slides'[i] = slides[i]
        /\ slides'[activeSlideIndex + 2] = slides[activeSlideIndex + 1]
        /\ \A i \in (activeSlideIndex + 2)..Len(slides) : slides'[i + 1] = slides[i]
        /\ activeSlideIndex' = activeSlideIndex + 1 ]_vars

\* the first of three different slides was duplicated
C8_Witness ==
  /\ lastOp = "duplicateSlide"
  /\ Len(slides) >= 4
  /\ activeSlideIndex = 1
  /\ slides[1] = slides[2]
  /\ slides[3] # slides[2]
  /\ slides[4] # slides[3]

\* C9: removeSlide with two or more slides removes the active slide, keeps the
\* others in order and sets activeSlideIndex to max(0, min(old, new length - 1)).
C9_RemoveSlide ==
  [][ (lastOp' = "removeSlide" /\ stepsLeft' # stepsLeft /\ Len(slides) >= 2) =>
        /\ Len(slides') = Len(slides) - 1
        /\ \A i \in 1..activeSlideIndex : slides'[i] = slides[i]
        /\ \A i \in (activeSlideIndex + 2)..Len(slides) : slides'[i - 1] = slides[i]
        /\ activeSlideIndex' = Max(0, Min(activeSlideIndex, Len(slides) - 2)) ]_vars

\* the last slide was removed and the index moved back onto the new last one
C9_Witness ==
  /\ lastOp = "removeSlide"
  /\ error = <<>>
  /\ Len(history) > 0
  /\ Len(history[Len(history)].slides) = Len(slides) + 1
  /\ history[Len(history)].activeSlideIndex = Len(slides)
  /\ activeSlideIndex = Len(slides) - 1
  /\ Len(slides) >= 2

\* C10: moveSlide is a no-op at either end; elsewhere it swaps the active
\* slide with its neighbour, keeps the others and the index follows the slide.
C10_MoveSlide ==
  [][ \A direction \in {"left", "right"} :
        (lastOp' = moveOp(direction) /\ stepsLeft' # stepsLeft) =>
          LET target == IF direction = "left" THEN activeSlideIndex - 1
                        ELSE activeSlideIndex + 1
          IN IF target < 0 \/ target > Len(slides) - 1
             THEN UNCHANGED docVars
             ELSE /\ Len(slides') = Len(slides)
                  /\ slides'[target + 1] = slides[activeSlideIndex + 1]
                  /\ slides'[activeSlideIndex + 1] = slides[target + 1]
                  /\ \A i \in 1..Len(slides) :
                       (i # target + 1 /\ i # activeSlideIndex + 1) => slides'[i] = slides[i]
                  /\ activeSlideIndex' = target ]_vars

\* a slide was moved left past a different slide, a third one staying put
C10_Witness ==
  /\ lastOp = "moveSlideLeft"
  /\ Len(slides) >= 3
  /\ Len(history) > 0
  /\ history[Len(history)].activeSlideIndex = activeSlideIndex + 1
  /\ slides[activeSlideIndex + 1] # slides[activeSlideIndex + 2]
  /\ history[Len(history)].slides[activeSlideIndex + 1] = slides[activeSlideIndex + 2]

\* C11: addSlide and duplicateSlide on a carousel of MAX_SLIDES slides, and
\* removeSlide on a carousel of one slide, leave the slides and the active
\* index as they were and set an error message.
C11_CapacityNoOp ==
  [][ ( /\ stepsLeft' # stepsLeft
        /\ \/ lastOp' \in {"addSlide", "duplicateSlide"} /\ Len(slides) >= MAX_SLIDES
           \/ lastOp' = "removeSlide" /\ Len(slides) = 1 )
      => /\ carouselState' = carouselState
         /\ error' # <<>> ]_vars

\* a slide was asked for on a full carousel and the limit message is shown
C11_Witness ==
  /\ lastOp \in {"addSlide", "duplicateSlide"}
  /\ Len(slides) = MAX_SLIDES
  /\ error = <<"Limite de slides atingido.">>
  /\ Len(history) > MAX_SLIDES - 1

\* C12: addSlide below the limit followed at once by removeSlide gives back the
\* number of slides and the active index of before the addSlide, whatever the
\* active index was.
C12_AddThenRemove ==
  [][ ( /\ lastOp = "addSlide" /\ error = <<>>
        /\ lastOp' = "removeSlide" /\ stepsLeft' # stepsLeft
        /\ Len(history) > 0 /\ redoStack = <<>> )
      => /\ Len(slides') = Len(history[Len(history)].slides)
         /\ activeSlideIndex' = history[Len(history)].activeSlideIndex ]_vars

\* the carousel after three addSlide calls on the carousel b: three copies of
\* the slide that was active, appended, the last of them active
threeAdded(b) ==
  LET c == b.slides[b.activeSlideIndex + 1]
  IN [ slides |-> b.slides \o <<c, c, c>>, activeSlideIndex |-> Len(b.slides) + 2 ]

\* C13: from the initial state, three addSlide calls give 4 slides with active
\* index 3; moveSlide('left') gives active index 2 with the last two slides
\* exchanged; one undo gives back the order and active index 3; three more
\* undos give back one slide with active index 0. Stated for every starting
\* carousel b of n slides: n + 3 slides and index n + 2, then index n + 1, then
\* index n + 2 again, then b itself.
C13_Scenario ==
  LET b == run.base[1]
      n == Len(b.slides)
      added == threeAdded(b)
  IN /\ stepsTaken = 3 => carouselState = added
     /\ stepsTaken = 4 =>
          /\ activeSlideIndex = n + 1
          /\ Len(slides) = n + 3
          /\ slides[n + 2] = added.slides[n + 3]
          /\ slides[n + 3] = added.slides[n + 2]
          /\ \A i \in 1..(n + 1) : slides[i] = added.slides[i]
     /\ stepsTaken = 5 => carouselState = added
     /\ stepsTaken = 8 => carouselState = b
     /\ (b = constructed /\ stepsTaken \in {3, 5}) =>
          Len(slides) = 4 /\ activeSlideIndex = 3
     /\ (b = constructed /\ stepsTaken = 4) => activeSlideIndex = 2
     /\ (b = constructed /\ stepsTaken = 8) =>
          Len(slides) = 1 /\ activeSlideIndex = 0

\* the scenario ran to its end from construction
C13_Witness ==
  /\ run.base = <<constructed>>
  /\ stepsTaken = 8
  /\ run.n = 4 /\ run.u = 4
  /\ Len(redoStack) = 4
  /\ Len(redoStack[4].slides) = 4 /\ redoStack[4].activeSlideIndex = 2
  /\ history = <<>>

\* initialX + (pointerX - startX) / viewScale of a drag
candidateX(ref, clientX) == ref.initialX + divByScale(clientX - ref.x)

C15_ScalesClamped ==
  \A i \in 1..Len(slides) : \A element \in Elements :
    scaleOf(slides[i], element) >= 200 /\ scaleOf(slides[i], element) <= 3000

\* pointer moves far beyond the range have left one scale at each end of it
C15_Witness ==
  /\ lastOp = "move"
  /\ \E e1 \in Elements, e2 \in Elements :
       scaleOf(tweetData, e1) = 3000 /\ scaleOf(tweetData, e2) = 200

\* the file name of the i-th output of a carousel of fewer than 10 slides
numbered(i) == <<"carrossel-", "0", NumStr(i)>>

\* C16: a carousel export of a valid document of K slides, every capture
\* succeeding and nothing else running, has produced when it ends exactly K
\* outputs numbered 01..K in this order, the i-th captured while slide i was
\* the active one, and leaves the active index it started from.
C16_ExportAll ==
  [][ (lastOp' = "exportCaptured" /\ exports # <<>> /\ exports' = <<>>)
      => /\ Len(outputs') = Len(slides)
         /\ \A i \in 1..Len(slides) :
              outputs'[i].file = numbered(i) /\ outputs'[i].shown = i - 1
         /\ activeSlideIndex' = exports[1].originalSlideIndex
         /\ slides' = slides ]_vars

\* three slides were exported from the second slide, which is active again
C16_Witness ==
  /\ lastOp = "exportCaptured"
  /\ exports = <<>>
  /\ Len(slides) = 3
  /\ Len(outputs) = 3
  /\ outputs[3].file = <<"carrossel-", "0", "3">>
  /\ activeSlideIndex = 1
  /\ error = <<>>

\* C17: when the capture of slide j fails, the export ends there (its loop is
\* left, so no later slide is captured): the outputs are those numbered
\* 01..j-1, one error message is set and the active index is the one the
\* export started from.
C17_ExportFailure ==
  [][ (lastOp' = "exportFailed" /\ stepsLeft' # stepsLeft)
      => /\ exports' = <<>>
         /\ outputs' = outputs
         /\ Len(outputs') = exports[1].i
         /\ \A i \in 1..Len(outputs') :
              outputs'[i].file = numbered(i) /\ outputs'[i].shown = i - 1
         /\ error' = <<"Falha ao gerar o download do carrossel.">>
         /\ activeSlideIndex' = exports[1].originalSlideIndex ]_vars

\* the capture of the second of three slides failed
C17_Witness ==
  /\ lastOp = "exportFailed"
  /\ exports = <<>>
  /\ Len(slides) = 3
  /\ Len(outputs) = 1
  /\ activeSlideIndex = 2
  /\ error # <<>>

\* a text without any character that is not white space
blank(t) == \A i \in 1..Len(t) : IsWhite(t[i])

tooLong(t) == textLen(t) > 420

reported(label, issue) ==
  \E n \in 1..Len(getValidationIssues(carouselState)) :
    getValidationIssues(carouselState)[n] = <<label, issue>>

\* C18 as stated: an issue for every slide whose content is empty and for every
\* slide whose content is longer than 420 characters, and no issue at all when
\* every content is non-empty, white space alone included, and at most 420
\* characters long.
C18_ValidateAsStated ==
  /\ \A i \in 1..Len(slides) :
       slides[i].content = <<>> => reported(NumStr(i), "texto vazio.")
  /\ \A i \in 1..Len(slides) :
       tooLong(slides[i].content) => reported(NumStr(i), "texto muito longo")
  /\ (\A i \in 1..Len(slides) : slides[i].content # <<>> /\ ~tooLong(slides[i].content))
       => getValidationIssues(carouselState) = <<>>

\* C18 amended: an issue for every slide whose content has no character other
\* than white space and for every slide whose content is longer than 420
\* characters, and no issue at all when every content has a character that is
\* not white space and is at most 420 characters long.
C18_Validate ==
  /\ \A i \in 1..Len(slides) :
       blank(slides[i].content) => reported(NumStr(i), "texto vazio.")
  /\ \A i \in 1..Len(slides) :
       tooLong(slides[i].content) => reported(NumStr(i), "texto muito longo")
  /\ (\A i \in 1..Len(slides) : ~blank(slides[i].content) /\ ~tooLong(slides[i].content))
       => getValidationIssues(carouselState) = <<>>

\* one slide holds white space only, another 421 characters, and both are reported
C18_Witness ==
  /\ \E i \in 1..Len(slides), j \in 1..Len(slides) :
       /\ slides[i].content = <<" ">>
       /\ slides[j].content = <<"x421">>
       /\ reported(NumStr(i), "texto vazio.")
       /\ reported(NumStr(j), "texto muito longo")
  /\ Len(getValidationIssues(carouselState)) = 2

invalidSlide(i) == blank(slides[i].content) \/ tooLong(slides[i].content)

firstInvalid ==
  CHOOSE i \in 1..Len(slides) : invalidSlide(i) /\ \A j \in 1..(i - 1) : ~invalidSlide(j)

\* C19: when some slide, active or not, has an issue, the export of the active
\* slide and the export of the carousel stop before any capture: no output, no
\* export under way, the active index and the transient state of the editor as
\* they were, and the error names the first issue in slide order.
C19_ValidationBlocks ==
  [][ ( /\ lastOp' \in {"download", "downloadCarousel"}
        /\ stepsLeft' # stepsLeft
        /\ \E i \in 1..Len(slides) : invalidSlide(i) )
      => /\ outputs' = outputs
         /\ exports' = exports
         /\ carouselState' = carouselState
         /\ UNCHANGED <<editingField, gestureVars>>
         /\ error' = << "Revise antes de exportar", NumStr(firstInvalid),
                        IF blank(slides[firstInvalid].content)
                        THEN "texto vazio." ELSE "texto muito longo" >> ]_vars

\* an export was refused for a slide that is not the active one, during an
\* inline edit
C19_Witness ==
  /\ lastOp \in {"download", "downloadCarousel"}
  /\ Len(error) = 3
  /\ error[2] # NumStr(activeSlideIndex + 1)
  /\ ~invalidSlide(activeSlideIndex + 1)
  /\ editingField = "content"
  /\ exports = <<>>

\* C20: when the AI avatar edit or the AI image generation fails right after it
\* was issued, the pending flag is false afterwards, an error message is set,
\* the slides are those of the moment of the call and the snapshot recorded at
\* the call is the top of the undo stack; the pending flag is false after a
\* success too.
C20_CallFailure ==
  [][ /\ (lastOp = "geminiEdit" /\ geminiEdit # <<>> /\ lastOp' = "geminiEditRejected")
         => /\ isProcessing' = FALSE
            /\ error' # <<>>
            /\ slides' = geminiEdit[1].closure.slides
            /\ history' # <<>>
            /\ history'[Len(history')] = geminiEdit[1].closure
      /\ (lastOp = "imageGeneration" /\ imageGen # <<>> /\ lastOp' = "imageGenerationRejected")
         => /\ isGeneratingImage' = FALSE
            /\ error' # <<>>
            /\ slides' = imageGen[1].closure.slides
            /\ history' # <<>>
            /\ history'[Len(history')] = imageGen[1].closure
      /\ (lastOp' = "geminiEditResolved" /\ stepsLeft' # stepsLeft) => isProcessing' = FALSE
      /\ (lastOp' = "imageGenerationResolved" /\ stepsLeft' # stepsLeft)
         => isGeneratingImage' = FALSE ]_vars

\* an avatar edit has failed: the flag is down, the prompt is kept and the
\* snapshot of the call is on top of the undo stack
C20_Witness ==
  /\ lastOp = "geminiEditRejected"
  /\ ~isProcessing
  /\ error = <<"Falha ao editar a imagem. Tente um comando diferente.">>
  /\ prompt # <<>>
  /\ history # <<>>
  /\ history[Len(history)] = carouselState

\* C21: a session of a text field (focus, changes of the value, blur) records
\* exactly one snapshot, the document of the focus, when the value of the field
\* at the blur differs from its value at the focus, and none otherwise, also
\* when the value was changed and changed back; no change of the value records
\* a snapshot. For the inputs of displayName and handle and for the text areas
\* of the contents.
C21_TextSession ==
  [][ /\ (lastOp' \in {"inputBlur", "bulkBlur"} /\ stepsLeft' # stepsLeft) =>
           IF fieldOf(slides[focused[1].index + 1], focused[1].field) # focusValue
           THEN history' = Append(focusBegan[1].history, focusBegan[1].carouselState)
           ELSE history' = focusBegan[1].history
      /\ (lastOp' \in {"inputChange", "bulkChange"} /\ stepsLeft' # stepsLeft) =>
           history' = history ]_vars

\* the same for the inputs of displayName and handle alone
C21_InputSession ==
  [][ /\ (lastOp' = "inputBlur" /\ stepsLeft' # stepsLeft) =>
           IF fieldOf(slides[focused[1].index + 1], focused[1].field) # focusValue
           THEN history' = Append(focusBegan[1].history, focusBegan[1].carouselState)
           ELSE history' = focusBegan[1].history
      /\ (lastOp' \in {"inputChange", "bulkChange"} /\ stepsLeft' # stepsLeft) =>
           history' = history ]_vars

\* C22: selectSlide(index) makes index the active index and ends the inline
\* edit; the slides with all their fields, their order, the undo stack and the
\* redo stack stay as they are, so a text typed in an inline edit that the
\* selection interrupts stays in the slide it was typed into.
C22_SelectSlide ==
  [][ \A index \in 0..(MAX_SLIDES - 1) :
        handleSelectSlide(index) =>
          /\ activeSlideIndex' = index
          /\ editingField' = "none"
          /\ slides' = slides
          /\ history' = history
          /\ redoStack' = redoStack ]_vars

\* another slide was selected during an inline edit of the content; the text
\* typed is in the slide that was active, which the snapshot of the double
\* click shows with its older text
C22_Witness ==
  /\ lastOp = "selectSlide"
  /\ editingField = "none"
  /\ history # <<>>
  /\ LET before == history[Len(history)]
     IN /\ before.activeSlideIndex # activeSlideIndex
        /\ Len(before.slides) = Len(slides)
        /\ slides[before.activeSlideIndex + 1].content \in TypedContents
        /\ before.slides[before.activeSlideIndex + 1].content
             # slides[before.activeSlideIndex + 1].content

\* the texts of the templates: the hook, the call to action and the body
hookText(id, total) ==
  CASE id = "educacional" -> <<"Gancho forte: o erro que esta travando seu resultado hoje.">>
    [] id = "storytelling" ->
         <<"Tudo comecou quando eu percebi um padrao que ninguem estava falando.">>
    [] id = "lista" -> <<"Top", " ", IF total > 5 THEN NumStr(total - 2) ELSE "3", " ",
                         "ideias para melhorar seu conteudo hoje.">>

ctaText(id) ==
  CASE id = "educacional" -> <<"CTA: comente QUERO para receber o passo a passo completo.">>
    [] id = "storytelling" ->
         <<"Conclusao + CTA: salve esse carrossel para revisar quando for aplicar.">>
    [] id = "lista" -> <<"Qual insight voce vai aplicar primeiro? Responda nos comentarios.">>

isBodyText(id, t) ==
  /\ Len(t) = 4
  /\ t[1] = (CASE id = "educacional" -> "Ponto" [] id = "storytelling" -> "Cena"
               [] id = "lista" -> "Insight")
  /\ t \notin {hookText(id, n) : n \in 1..MAX_SLIDES} \cup {ctaText(id)}

\* what applyTemplate leaves alone: the number of slides, every field but the
\* content, the active index; and the one snapshot it records
templateFrame ==
  /\ history' = Append(history, carouselState)
  /\ Len(slides') = Len(slides)
  /\ activeSlideIndex' = activeSlideIndex
  /\ \A i \in 1..Len(slides) : [slides'[i] EXCEPT !.content = <<>>]
                                  = [slides[i] EXCEPT !.content = <<>>]

\* C23 as stated: applyTemplate with a known id records one snapshot and gives
\* slide 0 the hook, the last slide (index n - 1) the call to action and the
\* slides in between a body text, for every n in 1..MAX_SLIDES, all else kept;
\* with an unknown id nothing changes and no snapshot is recorded.
C23_TemplateAsStated ==
  [][ \A templateId \in TemplateIds :
        handleApplyTemplate(templateId) =>
          IF templateId \in CONTENT_TEMPLATES
          THEN /\ templateFrame
               /\ slides'[1].content = hookText(templateId, Len(slides))
               /\ slides'[Len(slides)].content = ctaText(templateId)
               /\ \A i \in 2..(Len(slides) - 1) : isBodyText(templateId, slides'[i].content)
          ELSE UNCHANGED docVars ]_vars

\* C23 amended: the last slide receives the call to action when n >= 2; the
\* only slide of a carousel of one slide receives the hook.
C23_Template ==
  [][ \A templateId \in TemplateIds :
        handleApplyTemplate(templateId) =>
          IF templateId \in CONTENT_TEMPLATES
          THEN /\ templateFrame
               /\ slides'[1].content = hookText(templateId, Len(slides))
               /\ Len(slides) >= 2 => slides'[Len(slides)].content = ctaText(templateId)
               /\ \A i \in 2..(Len(slides) - 1) : isBodyText(templateId, slides'[i].content)
          ELSE UNCHANGED docVars ]_vars

\* a template was applied to a carousel of MAX_SLIDES slides, a slide between
\* the first and the last being active
C23_Witness ==
  /\ lastOp = "applyTemplate"
  /\ Len(slides) = MAX_SLIDES
  /\ activeSlideIndex > 0 /\ activeSlideIndex < MAX_SLIDES - 1
  /\ history # <<>>
  /\ history[Len(history)].slides # slides
  /\ slides[1].content = <<"Top", " ", "8", " ", "ideias para melhorar seu conteudo hoje.">>
  /\ slides[2].content = <<"Insight", " ", "1", ": dica pratica + um micro-exemplo de aplicacao.">>
  /\ slides[MAX_SLIDES].content = ctaText("lista")

\* the fields copyStyleToAllSlides copies, and the texts and images it keeps
visualOf(slide) ==
  << slide.background, slide.headerPosition, slide.headerScale, slide.contentPosition,
     slide.contentScale, slide.tweetImagePosition, slide.tweetImageScale >>

textsAndImagesOf(slide) ==
  << slide.displayName, slide.handle, slide.content, slide.avatarUrl, slide.tweetImage >>

\* C24: copyStyleToAllSlides records exactly one snapshot; afterwards the
\* background, the three positions and the three scales of every slide that is
\* not active equal those of the active slide, while the texts, the avatar and
\* the tweet image of every slide, the active slide, the number of slides and
\* the active index are as before; applying it again changes nothing more.
C24_CopyStyle ==
  [][ handleCopyStyleToAllSlides =>
        /\ history' = Append(history, carouselState)
        /\ Len(slides') = Len(slides)
        /\ activeSlideIndex' = activeSlideIndex
        /\ slides'[activeSlideIndex + 1] = slides[activeSlideIndex + 1]
        /\ \A i \in 1..Len(slides) :
             /\ visualOf(slides'[i]) = visualOf(slides[activeSlideIndex + 1])
             /\ textsAndImagesOf(slides'[i]) = textsAndImagesOf(slides[i])
        /\ copyStyleResult(carouselState', carouselState') = carouselState' ]_vars

\* the style of the active slide, changed just before, was copied to slides
\* with other texts and without its tweet image
C24_Witness ==
  /\ lastOp = "copyStyle"
  /\ Len(slides) >= 3
  /\ Len(history) >= 2
  /\ LET before == history[Len(history)]
         source == tweetData
     IN /\ \A i \in 1..Len(slides) :
             i # activeSlideIndex + 1 =>
               /\ visualOf(before.slides[i]) # visualOf(source)
               /\ visualOf(slides[i]) = visualOf(source)
               /\ slides[i].content # source.content
               /\ slides[i].tweetImage # source.tweetImage
        /\ visualOf(history[Len(history) - 1].slides[activeSlideIndex + 1]) # visualOf(source)

\* C25: in every reachable state at most one of the drag state and the resize
\* state is active, whatever mouse and touch events came, a second touch on a
\* resize handle during a drag included.
C25_OneGesture ==
  ~(draggingItem # "none" /\ resizingItem # "none")

\* the three positions of every slide
positions == [i \in 1..Len(slides) |-> [element \in Elements |-> positionOf(slides[i], element)]]

\* C26: while an inline edit is active a drag start on any region does
\* nothing: the drag state and the refs of the gesture stay as they are (idle
\* when they were idle), no snapshot is recorded, the redo stack is kept, and a
\* pointer move after it, no drag being active, changes no position.
C26_NoDragWhileEditing ==
  [][ /\ \A element \in Elements :
           (editingField # "none" /\ initiateDrag(0, 0, element, 100, 50)) =>
             /\ UNCHANGED <<draggingItem, dragStartRef, guidelines>>
             /\ draggingItem = "none" => draggingItem' = "none"
             /\ UNCHANGED <<carouselState, history, redoStack>>
      /\ \A p \in Pointers :
           ( /\ lastOp = "dragStart" /\ editingField # "none" /\ draggingItem = "none"
             /\ processMove(p.x, p.y) ) =>
             positions' = positions ]_vars

\* a drag start was refused during an inline edit in which a text was typed
C26_Witness ==
  /\ lastOp = "dragStart"
  /\ editingField # "none"
  /\ draggingItem = "none" /\ resizingItem = "none" /\ dragStartRef = <<>>
  /\ history # <<>>
  /\ fieldOf(tweetData, editingField) \in TypedValues
  /\ history[Len(history)].slides # slides
  /\ history[Len(history)].activeSlideIndex = activeSlideIndex
  /\ positionOf(history[Len(history)].slides[activeSlideIndex + 1], "content")
       = positionOf(tweetData, "content")

\* the three scales of every slide
scales == [i \in 1..Len(slides) |-> [element \in Elements |-> scaleOf(slides[i], element)]]

\* C27: while an inline edit is active a resize start on any corner handle is
\* suppressed: the resize state stays idle, no snapshot is recorded, and a
\* pointer move after it changes no scale.
C27_NoResizeWhileEditing ==
  [][ /\ \A element \in Elements, handle \in Handles :
           (editingField # "none" /\ initiateResize(0, 0, element, handle)) =>
             /\ UNCHANGED <<resizingItem, activeHandle, resizeStartRef>>
             /\ resizingItem = "none" => resizingItem' = "none"
             /\ UNCHANGED <<carouselState, history, redoStack>>
      /\ \A p \in Pointers :
           ( /\ lastOp = "resizeStart" /\ editingField # "none"
             /\ processMove(p.x, p.y) ) =>
             scales' = scales ]_vars

\* the slide with the text of one of its fields blanked out
exceptField(slide, field) == withField(slide, field, <<>>)

\* C28: an inline edit session records exactly one snapshot: the double click
\* records the document as it is and opens the edit of the field without
\* changing the document, so the snapshot is the document before the first
\* keystroke; every keystroke writes the value into that field of the active
\* slide, changes nothing else and records nothing; the loss of the focus
\* closes the edit and changes neither the document nor the stacks.
C28_InlineEditSession ==
  [][ /\ \A element \in EditFields :
           handleDoubleClick(element) =>
             /\ history' = Append(history, carouselState)
             /\ carouselState' = carouselState
             /\ editingField' = element
      /\ \A value \in TypedValues :
           handleEditChange(value) =>
             /\ history' = history
             /\ redoStack' = redoStack
             /\ editingField' = editingField
             /\ activeSlideIndex' = activeSlideIndex
             /\ Len(slides') = Len(slides)
             /\ fieldOf(tweetData', editingField) = value
             /\ exceptField(tweetData', editingField) = exceptField(tweetData, editingField)
             /\ \A i \in 1..Len(slides) : i # activeSlideIndex + 1 => slides'[i] = slides[i]
             /\ lastOp = "doubleClick" => history[Len(history)] = carouselState
      /\ handleEditBlur =>
             /\ editingField' = "none"
             /\ UNCHANGED docVars ]_vars

\* a session of a double click, two keystrokes and the loss of the focus has
\* ended; the snapshot on top of the undo stack holds the text of before
C28_Witness ==
  /\ lastOp = "editBlur"
  /\ editingField = "none"
  /\ stepsLeft = MaxEditSteps - 4
  /\ draggingItem = "none" /\ resizingItem = "none"
  /\ history # <<>>
  /\ history[Len(history)].activeSlideIndex = activeSlideIndex
  /\ \E field \in EditFields :
       /\ fieldOf(tweetData, field) = <<"a">>
       /\ fieldOf(history[Len(history)].slides[activeSlideIndex + 1], field) \notin TypedValues
       /\ exceptField(history[Len(history)].slides[activeSlideIndex + 1], field)
            = exceptField(tweetData, field)

\* the exports in flight that are of one kind: of the carousel, or of the
\* active slide alone
carouselExports == {k \in 1..Len(exports) : exports[k].pc \in {"timer", "capture"}}
slideExports == {k \in 1..Len(exports) : exports[k].pc \in {"singleTimer", "singleCapture"}}
\* the exports whose toJpeg call on the preview has not returned yet
captures == {k \in 1..Len(exports) : exports[k].pc \in {"capture", "singleCapture"}}

\* C29: no two invocations of the same long-running action are in progress at
\* the same time, from a button or from a keyboard shortcut: at most one
\* avatar edit, one image generation, one export of the active slide and one
\* export of the carousel, and at most one capture of the preview.
C29_NoOverlap ==
  /\ Len(geminiEdit) <= 1
  /\ Len(imageGen) <= 1
  /\ Cardinality(slideExports) <= 1
  /\ Cardinality(carouselExports) <= 1
  /\ Cardinality(captures) <= 1

\* the sign of a move to the right, and of a move down, in the growth of a
\* resize from the handle
signX(handle) == IF handle \in {"se", "ne"} THEN 1 ELSE 0 - 1
signY(handle) == IF handle \in {"se", "sw"} THEN 1 ELSE 0 - 1

\* clamp(initialScale + growth * 0.002, 0.2, 3.0), in thousandths
clampedGrowth(initialScale, growth) ==
  LET raw == initialScale + 2 * growth
  IN IF raw < 200 THEN 200 ELSE IF raw > 3000 THEN 3000 ELSE raw

\* the pointer has moved away from the corner of the handle in both axes
outward(handle, dx, dy) == signX(handle) * dx >= 0 /\ signY(handle) * dy >= 0

\* C30: a pointer move of a resize writes the scale clamp(initialScale +
\* growth * 0.002, 0.2, 3.0), growth being +dx+dy for the handle se, -dx+dy
\* for sw, +dx-dy for ne and -dx-dy for nw, with dx and dy measured from the
\* pointer of the resize start; so a pointer moved outward from the corner in
\* both axes never gives a scale below initialScale.
C30_ResizeGrowth ==
  [][ \A p \in ResizePointers :
        ( /\ resizingItem # "none" /\ resizeStartRef # <<>> /\ activeHandle # "none"
          /\ processMove(p.x, p.y) ) =>
          LET ref == resizeStartRef[1]
              dx == p.x - ref.startX
              dy == p.y - ref.startY
              growth == signX(activeHandle) * dx + signY(activeHandle) * dy
          IN /\ scaleOf(tweetData', resizingItem) = clampedGrowth(ref.initialScale, growth)
             /\ outward(activeHandle, dx, dy) =>
                  scaleOf(tweetData', resizingItem) >= ref.initialScale ]_vars

\* a second resize, from the handle sw and from a scale other than 1.0, has
\* grown the region by a pointer moved to the left and down
C30_Witness ==
  /\ lastOp = "move"
  /\ resizingItem # "none"
  /\ activeHandle = "sw"
  /\ resizeStartRef # <<>>
  /\ resizeStartRef[1].initialScale # 1000
  /\ resizeStartRef[1].startX = 10
  /\ scaleOf(tweetData, resizingItem) = resizeStartRef[1].initialScale + 2 * (310 + 80)
  /\ scaleOf(tweetData, resizingItem) < 3000

\* C31: a drag session and a resize session record one snapshot each, at the
\* start, which is the document as it is and leaves it as it is; a pointer
\* move records nothing and keeps the redo stack; the end of the gesture
\* records nothing, keeps the document, empties the guidelines and sets the
\* drag state, the resize state, the active handle and both refs to idle; and
\* a pointer move after the end changes nothing in the document.
C31_GestureSession ==
  [][ /\ ( /\ stepsLeft' # stepsLeft
           /\ \/ lastOp' = "dragStart" /\ editingField = "none"
              \/ lastOp' = "resizeStart" ) =>
             /\ history' = Append(history, carouselState)
             /\ carouselState' = carouselState
      /\ (stepsLeft' # stepsLeft /\ lastOp' = "move") =>
             /\ history' = history
             /\ redoStack' = redoStack
      /\ handleInteractionEnd =>
             /\ UNCHANGED docVars
             /\ guidelines' = <<>>
             /\ draggingItem' = "none" /\ resizingItem' = "none" /\ activeHandle' = "none"
      /\ \A p \in Pointers :
           (lastOp = "interactionEnd" /\ processMove(p.x, p.y)) =>
             /\ UNCHANGED docVars
             /\ guidelines' = <<>> ]_vars

\* a drag was started, moved the content and was ended, and the pointer has
\* moved once more: one snapshot, the position of the last move of the drag
C31_Witness ==
  /\ lastOp = "move"
  /\ stepsLeft = MaxEditSteps - 4
  /\ editingField = "none"
  /\ draggingItem = "none" /\ resizingItem = "none" /\ activeHandle = "none"
  /\ dragStartRef = <<>> /\ resizeStartRef = <<>>
  /\ guidelines = <<>>
  /\ history # <<>>
  /\ positionOf(tweetData, "content")
       # positionOf(history[Len(history)].slides[activeSlideIndex + 1], "content")
  /\ scales = [i \in 1..Len(slides) |->
                 [element \in Elements |-> scaleOf(history[Len(history)].slides[i], element)]]

\* the snaps of x a pointer move of a drag makes: to the left padding, when the
\* candidate x is less than 15 from 0, and then to the centre of the card, when
\* the centre of the element is less than 15 from 540
leftSnaps(ref, clientX) == Abs(candidateX(ref, clientX)) < 15
centreSnaps(ref, clientX) ==
  LET x == IF leftSnaps(ref, clientX) THEN 0 ELSE candidateX(ref, clientX)
  IN Abs(2 * (100 + x) + ref.width - 1080) < 30

\* C32: the guidelines after a pointer move of a drag are those of that move
\* alone, whatever the set held before: the line of the left padding when x
\* snaps to it, then the line of the centre when x snaps to it, so two at the
\* most and none when neither snap of x applies; every guideline is vertical,
\* also when y snaps to 0; and guidelines are shown only while a drag is active.
C32_Guidelines ==
  [][ /\ \A p \in Pointers :
           ( /\ draggingItem # "none" /\ resizingItem = "none" /\ dragStartRef # <<>>
             /\ processMove(p.x, p.y) ) =>
             LET ref == dragStartRef[1]
             IN /\ guidelines' =
                     (IF leftSnaps(ref, p.x)
                      THEN <<[type |-> "vertical", position |-> 100]>> ELSE <<>>)
                     \o (IF centreSnaps(ref, p.x)
                         THEN <<[type |-> "vertical", position |-> 540]>> ELSE <<>>)
                /\ Len(guidelines') <= 2
                /\ (~leftSnaps(ref, p.x) /\ ~centreSnaps(ref, p.x)) => guidelines' = <<>>
      /\ \A i \in 1..Len(guidelines') : guidelines'[i].type = "vertical"
      /\ guidelines # <<>> => draggingItem # "none"
      /\ guidelines' # <<>> => draggingItem' # "none" ]_vars

\* a drag of the header has moved it from the left padding, where the previous
\* move had snapped it, to the centre of the card, the pointer 5 pixels below
\* its start: y snapped to 0 and the only guideline is the one of the centre
C32_Witness ==
  /\ lastOp = "move"
  /\ draggingItem = "header" /\ dragStartRef # <<>>
  /\ dragStartRef[1].width = 200
  /\ dragStartRef[1].initialX = 0 /\ dragStartRef[1].initialY = 0
  /\ positionOf(tweetData, "header") = [x |-> 340, y |-> 0]
  /\ guidelines = <<[type |-> "vertical", position |-> 540]>>
  /\ stepsLeft = MaxSteps - 3

\* C33: the view scale is never 0 when it is used as a divisor, by a drag
\* start and by a pointer move of a drag, whatever sizes of the container were
\* measured: empty, not measured yet, as small as the padding or smaller.
C33_NonZeroDivisor ==
  [][ /\ \A p \in Pointers :
           ( /\ draggingItem # "none" /\ dragStartRef # <<>>
             /\ ~(resizingItem # "none" /\ resizeStartRef # <<>> /\ activeHandle # "none")
             /\ processMove(p.x, p.y) ) =>
             scale.n # 0
      /\ (stepsLeft' # stepsLeft /\ lastOp' = "dragStart" /\ editingField = "none") =>
             scale.n # 0 ]_vars

\* C34: with the modifier down, E exports the active slide, Shift+E the
\* carousel, D duplicates the active slide and Left / Right select the
\* neighbour slide (nothing at the first / last slide), all of them only while
\* no text field has the focus: with the focus in a text field they change
\* nothing; Z undoes and Shift+Z redoes whatever has the focus, unless an
\* inline edit is open, when they change nothing.
C34_ShortcutsGated ==
  [][ \A key \in Keys, shiftKey \in BOOLEAN :
        handleKeyDown(key, shiftKey, ~noFocus) =>
          /\ (toLowerCase(key) # "z" /\ ~noFocus) =>
               UNCHANGED <<docVars, editingField, error, exports>>
          /\ (toLowerCase(key) = "e" /\ noFocus) =>
               \/ error' # <<>> /\ exports' = exports
               \/ /\ Len(exports') = Len(exports) + 1
                  /\ exports'[Len(exports')].pc = (IF shiftKey THEN "timer" ELSE "singleTimer")
          /\ (toLowerCase(key) = "d" /\ noFocus) =>
               carouselState' = duplicateSlideResult(carouselState, carouselState)
          /\ (key = "ArrowRight" /\ noFocus) =>
               carouselState' =
                 [carouselState EXCEPT !.activeSlideIndex = Min(@ + 1, Len(slides) - 1)]
          /\ (key = "ArrowLeft" /\ noFocus) =>
               carouselState' = [carouselState EXCEPT !.activeSlideIndex = Max(@ - 1, 0)]
          /\ (toLowerCase(key) = "z" /\ editingField = "none") =>
               [carouselState |-> carouselState', history |-> history',
                redoStack |-> redoStack']
                 = IF shiftKey THEN redoResult(carouselState, history, redoStack)
                   ELSE undoResult(carouselState, history, redoStack)
          /\ (toLowerCase(key) = "z" /\ editingField # "none") =>
               UNCHANGED docVars ]_vars

\* the edits of one slide: the text inputs of the side bar, a keystroke of an
\* inline edit, the background, a snippet, a pointer move of a drag or of a
\* resize, a slider, the result of a file read and of an image service, and
\* the removal of the tweet image
PerSlideEdits ==
  { "inputChange", "editChange", "backgroundChange", "snippet", "move", "slider",
    "readerLoadEnd", "geminiEditResolved", "imageGenerationResolved",
    "removeTweetImage" }

C36_StacksConserved ==
  [][ /\ (handleUndo /\ Len(history) > 0) =>
             /\ Len(history') = Len(history) - 1
             /\ Len(redoStack') = Len(redoStack) + 1
             /\ history' = SubSeq(history, 1, Len(history) - 1)
             /\ redoStack' = <<carouselState>> \o redoStack
             /\ carouselState' = history[Len(history)]
      /\ (handleRedo /\ Len(redoStack) > 0) =>
             /\ Len(redoStack') = Len(redoStack) - 1
             /\ Len(history') = Len(history) + 1
             /\ redoStack' = Tail(redoStack)
             /\ history' = Append(history, carouselState)
             /\ carouselState' = redoStack[1]
      /\ (handleUndo \/ handleRedo) =>
             Len(history') + Len(redoStack') = Len(history) + Len(redoStack) ]_vars

\* two undos and a redo: one entry is left on the redo stack, and the entry
\* the redo put on the undo stack, the document of before the redo, differs
\* from the document of now and from the entry left on the redo stack
C36_Witness ==
  /\ lastOp = "redo"
  /\ stepsLeft = MaxSteps - 3
  /\ Len(redoStack) = 1
  /\ Len(history) >= 1
  /\ history[Len(history)] # carouselState
  /\ redoStack[1] # carouselState
  /\ history[Len(history)] # redoStack[1]

\* C37: an operation that is refused, or that has nothing to do, records no
\* snapshot and keeps the redo stack: a new or a duplicated slide at
\* MAX_SLIDES, the removal of the only slide, a move of the first slide to the
\* left or of the last to the right, a template of an unknown id, a drag start
\* during an inline edit, an edit of the avatar with a prompt that is empty or
\* with an avatar that is no uploaded image, a generation with an empty
\* prompt, and an export that the validation stops.
C37_RejectedKeepsStacks ==
  [][ /\ ((handleAddSlide \/ handleDuplicateSlide) /\ Len(slides) >= MAX_SLIDES) =>
             UNCHANGED <<history, redoStack>>
      /\ (handleRemoveSlide /\ Len(slides) = 1) => UNCHANGED <<history, redoStack>>
      /\ (handleMoveSlide("left") /\ activeSlideIndex = 0) => UNCHANGED <<history, redoStack>>
      /\ (handleMoveSlide("right") /\ activeSlideIndex = Len(slides) - 1) =>
             UNCHANGED <<history, redoStack>>
      /\ handleApplyTemplate("unknown") => UNCHANGED <<history, redoStack>>
      /\ (initiateDrag(0, 0, "content", 100, 50) /\ editingField # "none") =>
             UNCHANGED <<history, redoStack>>
      /\ ( /\ handleGeminiEdit
           /\ blank(prompt) \/ tweetData.avatarUrl \notin {DEFAULT_AVATAR_BASE64,
                                                           "data:image/upload", "data:image/ai"} ) =>
             UNCHANGED <<history, redoStack>>
      /\ (handleImageGeneration /\ blank(imageGenerationPrompt)) =>
             UNCHANGED <<history, redoStack>>
      /\ ( /\ handleDownload \/ handleDownloadCarousel
           /\ \E i \in 1..Len(slides) : invalidSlide(i) ) =>
             UNCHANGED <<history, redoStack, exports>> ]_vars

\* the only slide of a carousel was not removed: the error tells it, and the
\* undo stack and the entry of the redo stack are those of before
C37_Witness ==
  /\ lastOp = "removeSlide"
  /\ Len(slides) = 1
  /\ error = <<"E necessario manter pelo menos 1 slide.">>
  /\ Len(redoStack) = 1
  /\ redoStack[1].slides[1].background = "#15202B"
  /\ history = contentHistory(<<slides[1].content>>, 1)
  /\ stepsLeft = MaxRejectSteps - 1

\* the steps of the export of the active slide, and those of the carousel
SlideExportSteps == {"download", "downloadTimer", "downloadCaptured", "downloadFailed"}
CarouselExportSteps == {"downloadCarousel", "exportTimer", "exportCaptured", "exportFailed"}

\* C38: no step of an export, of the active slide or of the carousel, whether
\* the export succeeds, fails or is stopped by the validation, changes the undo
\* stack, the redo stack, a field of a slide, the number of slides or their
\* order; the export of the active slide leaves activeSlideIndex as well, so
\* activeSlideIndex, written by the export of the carousel, is the only field
\* of the document an export writes.
C38_ExportReadOnly ==
  [][ /\ (stepsLeft' # stepsLeft /\ lastOp' \in SlideExportSteps \cup CarouselExportSteps) =>
             /\ history' = history
             /\ redoStack' = redoStack
             /\ slides' = slides
      /\ (stepsLeft' # stepsLeft /\ lastOp' \in SlideExportSteps) =>
             carouselState' = carouselState ]_vars

\* an export of the carousel has saved the first file and shows the second
\* slide, which is not the slide that was active: the undo stack is the one of
\* the start, the slides are those of the start with their texts
C38_Witness ==
  /\ lastOp = "exportCaptured"
  /\ exports # <<>>
  /\ exports[1].pc = "timer" /\ exports[1].i = 1
  /\ Len(outputs) = 1
  /\ activeSlideIndex = 1
  /\ exports[1].originalSlideIndex = 2
  /\ redoStack = <<>>
  /\ history = contentHistory([i \in 1..Len(slides) |-> slides[i].content], Len(slides))
  /\ slides[3].content # DEFAULT_TWEET_DATA.content

\* the pointers of the moves of a session: away from the start, and back at it
SessionPointers == AwayPointers \cup ResizeStarts

\* C39: the value a pointer move of a session writes is given by what the
\* start of the session recorded (the scale or the position of the element and
\* the pointer) and by the pointer of the move, whatever the moves before it
\* wrote: the scale is the clamped growth from the initial scale, the position
\* is the one computed from the initial position. So a pointer of a resize
\* that comes back to the point of the start gives the element the scale it
\* had at the start of the session, also after the scale was held at 0.2 or at
\* 3.0 in between.
C39_SessionMemoryless ==
  [][ \A p \in SessionPointers :
        /\ (resizingItem # "none" /\ processMove(p.x, p.y)) =>
             LET ref == resizeStartRef[1]
                 growth == signX(activeHandle) * (p.x - ref.startX)
                             + signY(activeHandle) * (p.y - ref.startY)
                 began == gestureBegan[1].slides[gestureBegan[1].activeSlideIndex + 1]
             IN /\ ref.initialScale = scaleOf(began, resizingItem)
                /\ scaleOf(tweetData', resizingItem) = clampedGrowth(ref.initialScale, growth)
                /\ (p.x = ref.startX /\ p.y = ref.startY) =>
                     scaleOf(tweetData', resizingItem) = scaleOf(began, resizingItem)
        /\ (draggingItem # "none" /\ resizingItem = "none" /\ processMove(p.x, p.y)) =>
             LET ref == dragStartRef[1]
                 began == gestureBegan[1].slides[gestureBegan[1].activeSlideIndex + 1]
                 y0 == ref.initialY + 2 * (p.y - ref.y)
             IN /\ ref.initialX = positionOf(began, draggingItem).x
                /\ ref.initialY = positionOf(began, draggingItem).y
                /\ positionOf(tweetData', draggingItem).x \in
                     { candidateX(ref, p.x), 0, (880 - ref.width) \div 2 }
                /\ positionOf(tweetData', draggingItem).y = (IF Abs(y0) < 15 THEN 0 ELSE y0)
                /\ positionOf(tweetData', draggingItem)
                     = [x |-> draggedTo(ref, p.x, p.y).x, y |-> draggedTo(ref, p.x, p.y).y] ]_vars

\* a resize from the scale 1.0 took the pointer beyond the range, where the
\* scale was held at an end of it, and then back to the point of the start:
\* the element has the scale 1.0 again
C39_Witness ==
  /\ lastOp = "move"
  /\ stepsLeft = MaxSessionSteps - 3
  /\ resizingItem # "none" /\ resizeStartRef # <<>>
  /\ resizeStartRef[1].initialScale = 1000
  /\ scaleOf(tweetData, resizingItem) = 1000
  /\ gestureBegan # <<>>
  /\ carouselState = gestureBegan[1]

====
